---- MODULE Spec2Model ----
(***************************************************************************)
(* Submission capture (Problem) and background statistics / sync          *)
(* orchestration (LeetCodeStateManager, GitHubService,                    *)
(* LeetCodeTrackerController) of the LeetCode tracker extension.          *)
(*                                                                         *)
(* Two Problem builds live in the repository:                             *)
(*   "graphql" : src/unnamed/part_002 (waits for the submission URL,      *)
(*               GraphQL fetch, rethrows on failure, no DOM parsing)      *)
(*   "rest"    : src/scripts/models/problem.js:434-907 (single URL probe, *)
(*               /check/ REST fetch, falls back to DOM extraction)        *)
(***************************************************************************)
EXTENDS Integers, Sequences, FiniteSets, TLC

VARIABLES
  \* ---- capture (content script, one Problem instance) ----
  build,        \* which Problem build runs
  url,          \* window.location.href, by shape
  pc,           \* position inside extractSubmissionStatsFromURL
  attempt,      \* loop variable of the running for-loop
  probes,       \* calls of getSubmissionIdFromURL in this capture
  waits,        \* completed 500 ms waits of waitForSubmissionURL
  submissionId, \* const submissionId (NoId when null)
  settled,      \* the fixed 2000 ms settling delay has completed
  fetches,      \* calls of fetchSubmissionData in this capture
  pollWaits,    \* completed 1000 ms waits of pollForSubmissionData
  nPending,     \* polls so far that answered state PENDING
  nOther,       \* polls so far that were neither PENDING nor finished
  lastData,     \* data of the latest poll
  pollResult,   \* value returned by pollForSubmissionData
  outcome,      \* how extractSubmissionStatsFromURL ended
  rec,          \* the Problem's stat fields
  firstFound,   \* history: index of the first probe that saw an id, 0 if none
  \* ---- background script ----
  counter,            \* stateManager.state.counter
  isCountingComplete, \* stateManager.state.isCountingComplete
  lastUpdate,         \* stateManager.state.lastUpdate ("null" or "date")
  loading,            \* stateManager.state.loading
  storage,            \* chrome.storage.local, the keys the background uses
  passes,             \* the startSync / initCounter invocations in flight
  lastBroadcast,      \* data of the latest statsUpdate message sent
  remoteFiles,        \* question ids of the pattern-matching repository files
  catalogUp,          \* the difficulty catalog endpoint can be reached
  observers,          \* who receives a statsUpdate message, if anyone
  event,              \* history: the step taken last
  \* ---- background script, one call of getAllLeetCodeProblems ----
  scanPc,       \* position inside getAllLeetCodeProblems
  scanUrl,      \* const url
  topAnswer,    \* history: the answer of the top-level listing
  folders,      \* the language folders still to visit
  allProblems,  \* const allProblems
  seen,         \* history: the folders visited, each with its answer
  scanResult,   \* how the call ended and what it returned
  \* ---- popup (one PopupManager) ----
  syncButtonDisabled, \* DOM.syncButton.disabled
  outbox,             \* syncSolvedProblems messages sent and not yet received
  statusReads,        \* calls of updateSyncStatus awaiting storage.get
  \* ---- content script, the DOM extraction of one Problem ----
  page,         \* history: the document the extraction called last has read
  language,     \* this.language
  code          \* this.code

captureVars == <<build, url, pc, attempt, probes, waits, submissionId, settled,
                 fetches, pollWaits, nPending, nOther, lastData, pollResult,
                 outcome, rec, firstFound>>

stateVars == <<counter, isCountingComplete, lastUpdate, loading>>

bgVars == <<counter, isCountingComplete, lastUpdate, loading, storage, passes,
            lastBroadcast, remoteFiles, catalogUp, observers, event>>

scanVars == <<scanPc, scanUrl, topAnswer, folders, allProblems, seen,
              scanResult>>

popupVars == <<syncButtonDisabled, outbox, statusReads>>

extractVars == <<page, language, code>>

vars == <<captureVars, bgVars, scanVars, popupVars, extractVars>>

----------------------------------------------------------------------------
(* Program constants *)

waitMaxAttempts == 20
pollMaxAttempts == 10

Builds == {"graphql", "rest"}

(* URL shapes: a problem page, a submission page whose id is followed by  *)
(* "/", and a submission page whose id ends the path.                     *)
Urls == {"problem", "submissionSlash", "submissionBare"}

NoId == "null"
TheId == "1774457019"

(* String values are kept as token sequences so that concatenation is     *)
(* real: "12" + " ms" is <<"12", " ms">>, the empty string is <<>>.       *)
Empty == <<>>

EmptyRec == [runtime |-> Empty, memory |-> Empty,
             runtimePercentile |-> Empty, memoryPercentile |-> Empty]

(* A parsed response body.  display_runtime "" stands for undefined,      *)
(* memory 0 for a missing raw value, percentiles are in thousandths       *)
(* (90505 is 90.505) with -1 for undefined, statusCode is the GraphQL     *)
(* field (10 is Accepted).                                                *)
Body(state, finished, status_msg, statusCode, display_runtime, status_runtime, status_memory, memory, runtime_percentile, memory_percentile) ==
  [state |-> state, finished |-> finished, status_msg |-> status_msg,
   statusCode |-> statusCode, display_runtime |-> display_runtime,
   status_runtime |-> status_runtime, status_memory |-> status_memory,
   memory |-> memory, runtime_percentile |-> runtime_percentile,
   memory_percentile |-> memory_percentile]

NullData == Body("null", FALSE, "", 0, "", Empty, Empty, 0, -1, -1)

IsNull(data) == data.state = "null"

(* What the /check/ endpoint answers: a job still queued, a job being     *)
(* judged, and a judged job (accepted or not).                            *)
RestBodies ==
  { Body("PENDING", FALSE, "", 0, "", Empty, Empty, 0, -1, -1),
    Body("STARTED", FALSE, "", 0, "", Empty, Empty, 0, -1, -1),
    Body("SUCCESS", TRUE, "Accepted", 10, "12", <<"12", " ms">>,
         <<"18.8", " MB">>, 19712000, 90505, 50254),
    Body("SUCCESS", TRUE, "Accepted", 10, "", <<"7", " ms">>,
         Empty, 262144, 100000, -1),
    Body("SUCCESS", TRUE, "Wrong Answer", 11, "", <<"N/A">>,
         <<"N/A">>, 0, -1, -1) }

(* What submissionDetails answers once response.json() has parsed it.     *)
GraphqlBodies ==
  { Body("", FALSE, "", 10, "12", <<"12", " ms">>, <<"18.8", " MB">>,
         19712000, 90505, 50254),
    Body("", FALSE, "", 11, "0", <<"N/A">>, <<"N/A">>, 0, -1, -1) }

(* A network answer: the fetch rejects ("error"), answers a non-2xx       *)
(* status ("notok"), or answers a body of one of three shapes.            *)
Response(net, shape, body) == [net |-> net, shape |-> shape, body |-> body]

Responses(b) ==
  { Response("error", "none", NullData), Response("notok", "none", NullData) }
  \cup
  (IF b = "rest"
     THEN { Response("ok", "json", body) : body \in RestBodies }
     ELSE { Response("ok", "errors", NullData),
            Response("ok", "nodetails", NullData) }
          \cup { Response("ok", "details", body) : body \in GraphqlBodies })

----------------------------------------------------------------------------
(* Problem: pure parts *)

(* The graphql build matches "/submissions/<digits>"; the rest build     *)
(* matches "/submissions/<digits>/" (a trailing slash is required).       *)
getSubmissionIdFromURL(b, u) ==
  CASE u = "submissionSlash" -> TheId
    [] u = "submissionBare"  -> IF b = "graphql" THEN TheId ELSE NoId
    [] OTHER                 -> NoId

(* Variant: the submission details are handed on as they were parsed. *)
fetchSubmissionDataUnmarked(b, resp) ==
  IF resp.net # "ok" THEN NullData
  ELSE IF b = "rest" THEN resp.body
  ELSE IF resp.shape # "details" THEN NullData
  ELSE resp.body

(* fetchSubmissionData: null unless the answer is usable; the graphql     *)
(* build rewrites submissionDetails into the shape of the /check/ answer. *)
fetchSubmissionData(b, resp) ==
  IF resp.net # "ok" THEN NullData
  ELSE IF b = "rest" THEN resp.body
  ELSE IF resp.shape # "details" THEN NullData
  ELSE [resp.body EXCEPT
          !.status_msg = IF resp.body.statusCode = 10
                           THEN "Accepted" ELSE "Not Accepted",
          !.finished = TRUE,
          !.state = "SUCCESS"]

(* Variant: the loop gives up one attempt early. *)
waitForSubmissionURLStepShort(id, att) ==
  IF id # NoId THEN "return"
  ELSE IF att < waitMaxAttempts - 1 THEN "wait"
  ELSE "timeout"

(* One iteration of the for-loop of waitForSubmissionURL after the probe  *)
(* answered id: "return" the id, "wait" 500 ms, or leave the loop and     *)
(* return null ("timeout").                                               *)
waitForSubmissionURLStep(id, att) ==
  IF id # NoId THEN "return"
  ELSE IF att < waitMaxAttempts THEN "wait"
  ELSE "timeout"

(* Variant: a PENDING answer ends the loop one attempt early. *)
pollForSubmissionDataStepPendingShort(data, att) ==
  IF IsNull(data) THEN "null"
  ELSE IF data.state = "PENDING"
    THEN (IF att < pollMaxAttempts - 1 THEN "wait" ELSE "null")
  ELSE IF data.finished THEN "data"
  ELSE IF att < pollMaxAttempts THEN "wait"
  ELSE "null"

(* Variant: only an Accepted result is returned. *)
pollForSubmissionDataStepAcceptedOnly(data, att) ==
  IF IsNull(data) THEN "null"
  ELSE IF data.state = "PENDING"
    THEN (IF att < pollMaxAttempts THEN "wait" ELSE "null")
  ELSE IF data.status_msg = "Accepted" /\ data.finished THEN "data"
  ELSE IF att < pollMaxAttempts THEN "wait"
  ELSE "null"

(* Variant: a missing answer is retried like a pending one. *)
pollForSubmissionDataStepRetryNull(data, att) ==
  IF IsNull(data) \/ data.state = "PENDING"
    THEN (IF att < pollMaxAttempts THEN "wait" ELSE "null")
  ELSE IF data.finished THEN "data"
  ELSE IF att < pollMaxAttempts THEN "wait"
  ELSE "null"

(* Variant: the loop bound is tested with <= instead of <. *)
pollForSubmissionDataStepExtra(data, att) ==
  IF IsNull(data) THEN "null"
  ELSE IF data.state = "PENDING"
    THEN (IF att <= pollMaxAttempts THEN "wait" ELSE "null")
  ELSE IF data.finished THEN "data"
  ELSE IF att <= pollMaxAttempts THEN "wait"
  ELSE "null"

(* Variant: an answer that is neither PENDING nor finished ends the loop. *)
pollForSubmissionDataStepOtherStops(data, att) ==
  IF IsNull(data) THEN "null"
  ELSE IF data.state = "PENDING"
    THEN (IF att < pollMaxAttempts THEN "wait" ELSE "null")
  ELSE IF data.finished THEN "data"
  ELSE "null"

(* One iteration of the for-loop of pollForSubmissionData after the fetch *)
(* answered data: "null" (return null), "data" (return data) or "wait"    *)
(* (wait 1000 ms and go round again).                                     *)
pollForSubmissionDataStep(data, att) ==
  IF IsNull(data) THEN "null"
  ELSE IF data.state = "PENDING"
    THEN (IF att < pollMaxAttempts THEN "wait" ELSE "null")
  ELSE IF data.status_msg = "Accepted" /\ data.finished THEN "data"
  ELSE IF data.finished THEN "data"
  ELSE IF att < pollMaxAttempts THEN "wait"
  ELSE "null"

(* (bytes / (1024 * 1024)).toFixed(1): tenths of a megabyte, half up.     *)
ToFixed1MB(bytes) ==
  LET tenths == (bytes * 20 + 1048576) \div 2097152
  IN  <<ToString(tenths \div 10), ".", ToString(tenths % 10)>>

(* Math.round(p * 100) / 100 for p >= 0, p in thousandths: hundredths.    *)
RoundPercentile(p) == (p + 5) \div 10

(* status_runtime with a trailing "ms" (and the spaces before it) removed *)
StripMs(s) ==
  IF Len(s) > 0 /\ s[Len(s)] = " ms" THEN SubSeq(s, 1, Len(s) - 1) ELSE s

extractSubmissionStatsFromAPI(r, data) ==
  [runtime |->
     IF data.display_runtime # "" THEN <<data.display_runtime, " ms">>
     ELSE IF data.status_runtime # Empty
       THEN StripMs(data.status_runtime) \o <<" ms">>
     ELSE r.runtime,
   memory |->
     IF data.status_memory # Empty THEN data.status_memory
     ELSE IF data.memory # 0 THEN ToFixed1MB(data.memory) \o <<" MB">>
     ELSE r.memory,
   runtimePercentile |->
     IF data.runtime_percentile # -1
       THEN <<ToString(RoundPercentile(data.runtime_percentile)), "%">>
       ELSE r.runtimePercentile,
   memoryPercentile |->
     IF data.memory_percentile # -1
       THEN <<ToString(RoundPercentile(data.memory_percentile)), "%">>
       ELSE r.memoryPercentile]

(* The document as extractSubmissionStatsFromDOM reads it.  Each field is *)
(* the first capture group of one pattern in one text, "" when the        *)
(* element is absent or the pattern does not match:                       *)
(*   rtMs, rtBeats   : the "<digits> ms" and "Beats <number>%" patterns   *)
(*                     in the first div containing "Runtime"              *)
(*   memMB, memBeats : the "<number> MB" and "Beats <number>%" patterns   *)
(*                     in the first div containing "Memory"               *)
(*   beats           : the elements containing "Beats" and "%", in        *)
(*                     document order, each with its Beats capture and    *)
(*                     the context word found around it                   *)
(*   bodyMs, bodyMB  : the two value patterns in document.body text       *)
Beat(pct, ctx) == [pct |-> pct, ctx |-> ctx]

BeatLists ==
  { <<>>,
    <<Beat("11", "runtime")>>,
    <<Beat("22", "memory")>>,
    <<Beat("11", "runtime"), Beat("22", "memory")>>,
    <<Beat("33", "both"), Beat("22", "memory")>>,
    <<Beat("", "runtime"), Beat("44", "none"), Beat("55", "runtime")>> }

Doms ==
  { d \in [rtMs : {"", "7"}, rtBeats : {"", "90.5"},
           memMB : {"", "18.8"}, memBeats : {"", "50"},
           beats : BeatLists, bodyMs : {"", "3"}, bodyMB : {"", "4.5"}] :
      \* the sections are part of the body text
      /\ (d.rtMs # "" => d.bodyMs # "")
      /\ (d.memMB # "" => d.bodyMB # "")
      \* a section whose text holds a Beats figure is itself a Beats element
      /\ (d.rtBeats # "" \/ d.memBeats # "" => d.beats # <<>>) }

Tok(v, unit) == IF v = "" THEN Empty ELSE <<v, unit>>

(* forEach over the Beats elements: the first match per field wins.       *)
RECURSIVE BeatsPass(_, _)
BeatsPass(r, beats) ==
  IF beats = <<>> THEN r
  ELSE LET e == Head(beats)
           r1 == IF e.pct = "" THEN r
                 ELSE IF e.ctx \in {"runtime", "both"}
                   THEN (IF r.runtimePercentile = Empty
                           THEN [r EXCEPT !.runtimePercentile = <<e.pct, "%">>]
                           ELSE r)
                 ELSE IF e.ctx = "memory"
                   THEN (IF r.memoryPercentile = Empty
                           THEN [r EXCEPT !.memoryPercentile = <<e.pct, "%">>]
                           ELSE r)
                 ELSE r
       IN  BeatsPass(r1, Tail(beats))

extractSubmissionStatsFromDOM(r, d) ==
  LET \* the Runtime section, then the Memory section
      r1 == [r EXCEPT
               !.runtime = IF d.rtMs # "" THEN <<d.rtMs, " ms">> ELSE @,
               !.runtimePercentile =
                  IF d.rtBeats # "" THEN <<d.rtBeats, "%">> ELSE @]
      r2 == [r1 EXCEPT
               !.memory = IF d.memMB # "" THEN <<d.memMB, " MB">> ELSE @,
               !.memoryPercentile =
                  IF d.memBeats # "" THEN <<d.memBeats, "%">> ELSE @]
      \* elements containing "Beats", only while a field is still empty
      r3 == IF \/ r2.runtime = Empty \/ r2.memory = Empty
               \/ r2.runtimePercentile = Empty \/ r2.memoryPercentile = Empty
              THEN BeatsPass(r2, d.beats) ELSE r2
      \* whole-document search for the fields still empty
      r4 == IF r3.runtime = Empty \/ r3.memory = Empty
              THEN [r3 EXCEPT
                      !.runtime = IF @ = Empty THEN Tok(d.bodyMs, " ms") ELSE @,
                      !.memory = IF @ = Empty THEN Tok(d.bodyMB, " MB") ELSE @]
              ELSE r3
  IN  r4

(* Variant: the null check on the submission id is missing. *)
extractSubmissionStatsFromURLOnIdNoCheck(b, id) == "settle"

(* extractSubmissionStatsFromURL, the branch taken once the submission id *)
(* is known to be id: go on ("settle"), fall back to the DOM ("dom") or   *)
(* throw.                                                                 *)
extractSubmissionStatsFromURLOnId(b, id) ==
  IF id # NoId THEN "settle"
  ELSE IF b = "graphql" THEN "throw:No submission ID in URL"
  ELSE "dom"

(* extractSubmissionStatsFromURL, the branch taken once                   *)
(* pollForSubmissionData has returned data.                               *)
extractSubmissionStatsFromURLOnData(b, data) ==
  IF ~IsNull(data) THEN "api"
  ELSE IF b = "graphql" THEN "throw:Failed to fetch submission data"
  ELSE "dom"

----------------------------------------------------------------------------
(* Problem: the extraction of language and code from the document.        *)

(* this.language: an object with langName and extension, or null. *)
Language(langName, extension) ==
  [null |-> FALSE, langName |-> langName, extension |-> extension]

(* this.language = {} of the constructor: both properties are undefined. *)
EmptyLanguage == Language("undefined", "undefined")

NullLanguage == [null |-> TRUE, langName |-> "undefined",
                 extension |-> "undefined"]

UnknownLanguage == Language("unknown", ".txt")

(* JavaScript truthiness of a string property that may be undefined. *)
Truthy(s) == s \notin {"", "undefined", "null"}

(* LanguageUtils.getLanguageInfo: the entry of a known language name, a   *)
(* falsy value for any other name.                                        *)
getLanguageInfo(name) ==
  IF name \in {"Python3", "python3", "python"}
    THEN Language("python3", ".py")
    ELSE NullLanguage

(* What the page holds for extractLanguageFromDOM:                        *)
(*   stored    : localStorage global_lang, "" when absent                 *)
(*   buttons   : textContent of the first element of each button          *)
(*               selector, "" when the selector matches nothing           *)
(*   codeClass : the language-<name> class of the first code element,     *)
(*               "" when there is none                                    *)
LanguagePages ==
  [kind : {"language"},
   stored : {"", "not json", "Python3", "Brainfuck"},
   buttons : [1..2 -> {"", " ", "Python3"}],
   codeClass : {"", "python", "bf"}]

(* The loop over the button selectors: the first text that is not empty   *)
(* is trimmed and ends the loop.                                          *)
RECURSIVE ButtonText(_)
ButtonText(buttons) ==
  IF buttons = <<>> THEN ""
  ELSE IF Head(buttons) # ""
    THEN (IF Head(buttons) = " " THEN "" ELSE Head(buttons))
  ELSE ButtonText(Tail(buttons))

(* Methods 1 to 3 of extractLanguageFromDOM: the stored preference (a     *)
(* value that JSON.parse rejects leaves language null), then the buttons, *)
(* then the class of the code element.                                    *)
FoundLanguage(p) ==
  LET m1 == IF p.stored = "not json" THEN "" ELSE p.stored
      m2 == IF m1 # "" THEN m1 ELSE ButtonText(p.buttons)
  IN  IF m2 # "" THEN m2 ELSE p.codeClass

extractLanguageFromDOM(p) ==
  IF FoundLanguage(p) # ""
    THEN (LET info == getLanguageInfo(FoundLanguage(p))
          IN  IF info.null THEN UnknownLanguage ELSE info)
    ELSE UnknownLanguage

(* The language line of extractSubmissionStatsFromAPI, by build. *)
apiLanguage(b, l, pretty_lang) ==
  IF b = "graphql"
    THEN (IF pretty_lang # "" THEN getLanguageInfo(pretty_lang) ELSE l)
    ELSE (IF pretty_lang # "" /\ (l.null \/ ~Truthy(l.langName))
            THEN getLanguageInfo(pretty_lang) ELSE l)

(* What the page holds for extractCodeFromDOM: for each selector the      *)
(* texts (textContent || value) of the elements it matches.               *)
(*   specific  : code.language-<langName>                                 *)
(*   fallbacks : the fallback selectors, in the order of the list         *)
MaxSelectors == 2

CodePages ==
  LET ElementLists == {<<>>, <<"">>, <<"x", "y">>, <<"y", "">>}
  IN  [kind : {"code"},
       specific : ElementLists,
       fallbacks : [1..MaxSelectors -> ElementLists]]

(* The loop over the fallback selectors: the first one that matches any   *)
(* element ends the loop.                                                 *)
RECURSIVE FirstMatched(_)
FirstMatched(lists) ==
  IF lists = <<>> THEN <<>>
  ELSE IF Len(Head(lists)) > 0 THEN Head(lists)
  ELSE FirstMatched(Tail(lists))

extractCodeFromDOM(l, p) ==
  LET codeElements == IF ~l.null /\ Truthy(l.langName) THEN p.specific
                      ELSE <<>>
      elements == IF Len(codeElements) = 0 THEN FirstMatched(p.fallbacks)
                  ELSE codeElements
  IN  IF Len(elements) > 0 THEN elements[Len(elements)] ELSE ""

NoPage == [kind |-> "none"]

(* The three extractions write different fields and only the code         *)
(* extraction reads one of another, this.language.  A Problem is followed *)
(* through its language extractions up to the extraction of its code or   *)
(* of its stat fields.                                                    *)
Extracted == page.kind \in {"code", "stats"}

(* extractLanguageFromDOM on a page. *)
ExtractLanguageFromDOM ==
  /\ ~Extracted
  /\ \E p \in LanguagePages :
       /\ language' = extractLanguageFromDOM(p)
       /\ page' = p
  /\ UNCHANGED code
  /\ UNCHANGED <<captureVars, bgVars, scanVars, popupVars>>

(* extractCodeFromDOM on a page. *)
ExtractCodeFromDOM ==
  /\ ~Extracted
  /\ \E p \in CodePages :
       /\ code' = extractCodeFromDOM(language, p)
       /\ page' = p
  /\ UNCHANGED language
  /\ UNCHANGED <<captureVars, bgVars, scanVars, popupVars>>

(* The language line of extractSubmissionStatsFromAPI on a response. *)
ExtractLanguageFromAPI ==
  /\ ~Extracted
  /\ \E pretty_lang \in {"", "Python3", "Brainfuck"} :
       /\ language' = apiLanguage(build, language, pretty_lang)
       /\ page' = [kind |-> "api", pretty_lang |-> pretty_lang]
  /\ UNCHANGED code
  /\ UNCHANGED <<captureVars, bgVars, scanVars, popupVars>>

(* extractSubmissionStatsFromDOM on a page, by a Problem whose stat       *)
(* fields are as constructed.                                             *)
ExtractStatsFromDOM ==
  /\ ~Extracted
  /\ rec = EmptyRec
  /\ \E d \in Doms :
       /\ rec' = extractSubmissionStatsFromDOM(rec, d)
       /\ page' = [kind |-> "stats", dom |-> d]
  /\ UNCHANGED <<language, code>>
  /\ UNCHANGED <<build, url, pc, attempt, probes, waits, submissionId,
                 settled, fetches, pollWaits, nPending, nOther, lastData,
                 pollResult, outcome, firstFound>>
  /\ UNCHANGED <<bgVars, scanVars, popupVars>>

(* The content script hands the next submission to a new Problem. *)
NewProblem ==
  /\ pc = "idle"
  /\ page # NoPage
  /\ rec' = EmptyRec
  /\ page' = NoPage
  /\ language' = EmptyLanguage
  /\ code' = ""
  /\ UNCHANGED <<build, url, pc, attempt, probes, waits, submissionId,
                 settled, fetches, pollWaits, nPending, nOther, lastData,
                 pollResult, outcome, firstFound>>
  /\ UNCHANGED <<bgVars, scanVars, popupVars>>

ExtractStep ==
  \/ ExtractLanguageFromDOM
  \/ ExtractCodeFromDOM
  \/ ExtractLanguageFromAPI
  \/ ExtractStatsFromDOM
  \/ NewProblem

----------------------------------------------------------------------------
(* Problem: one capture, step by step.  A step is the code between two    *)
(* awaits.                                                                *)

InitCapture ==
  /\ build \in Builds
  /\ url \in Urls
  /\ pc = "idle"
  /\ attempt = 0
  /\ probes = 0
  /\ waits = 0
  /\ submissionId = NoId
  /\ settled = FALSE
  /\ fetches = 0
  /\ pollWaits = 0
  /\ nPending = 0
  /\ nOther = 0
  /\ lastData = NullData
  /\ pollResult = NullData
  /\ outcome = "none"
  /\ rec = EmptyRec
  /\ firstFound = 0
  /\ page = NoPage
  /\ language = EmptyLanguage
  /\ code = ""

(* The end of extractSubmissionStatsFromURL on branch how. *)
Finish(how, data) ==
  /\ pc' = "done"
  /\ outcome' = how
  /\ \/ /\ how = "api"
        /\ rec' = extractSubmissionStatsFromAPI(rec, data)
     \/ /\ how = "dom"
        /\ \E d \in Doms : rec' = extractSubmissionStatsFromDOM(rec, d)
     \/ /\ how \notin {"api", "dom"}
        /\ rec' = rec

(* The page navigates (the site rewrites the location after a submit).    *)
Navigate ==
  /\ \E u \in Urls \ {url} : url' = u
  /\ UNCHANGED <<firstFound, build, pc, attempt, probes, waits, submissionId, settled,
                 fetches, pollWaits, nPending, nOther, lastData, pollResult,
                 outcome, rec>>
  /\ UNCHANGED <<bgVars, scanVars, popupVars, extractVars>>

(* graphql build: extractSubmissionStatsFromURL enters waitForSubmissionURL *)
StartWait ==
  /\ pc = "idle"
  /\ build = "graphql"
  /\ pc' = "probe"
  /\ attempt' = 1
  /\ UNCHANGED <<firstFound, build, url, probes, waits, submissionId, settled, fetches,
                 pollWaits, nPending, nOther, lastData, pollResult, outcome,
                 rec>>
  /\ UNCHANGED <<bgVars, scanVars, popupVars, extractVars>>

(* One probe of the URL inside waitForSubmissionURL, and what follows it  *)
(* without an await.                                                      *)
Probe ==
  /\ pc = "probe"
  /\ LET id == getSubmissionIdFromURL(build, url)
         step == waitForSubmissionURLStep(id, attempt)
     IN  /\ probes' = probes + 1
         /\ firstFound' = IF firstFound = 0 /\ id # NoId
                             THEN probes + 1 ELSE firstFound
         /\ \/ /\ step = "wait"
               /\ pc' = "probeWait"
               /\ UNCHANGED <<submissionId, outcome, rec>>
            \/ /\ step \in {"return", "timeout"}
               /\ submissionId' = id
               /\ LET how == extractSubmissionStatsFromURLOnId(build, id)
                  IN  IF how = "settle"
                        THEN pc' = "settle" /\ UNCHANGED <<outcome, rec>>
                        ELSE Finish(how, NullData)
  /\ UNCHANGED <<build, url, attempt, waits, settled, fetches, pollWaits,
                 nPending, nOther, lastData, pollResult>>
  /\ UNCHANGED <<bgVars, scanVars, popupVars, extractVars>>

(* The 500 ms timer of waitForSubmissionURL fires; attempt++ *)
ProbeWait ==
  /\ pc = "probeWait"
  /\ waits' = waits + 1
  /\ attempt' = attempt + 1
  /\ pc' = "probe"
  /\ UNCHANGED <<firstFound, build, url, probes, submissionId, settled, fetches,
                 pollWaits, nPending, nOther, lastData, pollResult, outcome,
                 rec>>
  /\ UNCHANGED <<bgVars, scanVars, popupVars, extractVars>>

(* rest build: extractSubmissionStatsFromURL reads the URL once. *)
StartRest ==
  /\ pc = "idle"
  /\ build = "rest"
  /\ LET id == getSubmissionIdFromURL(build, url)
         how == extractSubmissionStatsFromURLOnId(build, id)
     IN  /\ probes' = probes + 1
         /\ firstFound' = IF id # NoId THEN probes + 1 ELSE firstFound
         /\ submissionId' = id
         /\ IF how = "settle"
              THEN pc' = "settle" /\ UNCHANGED <<outcome, rec>>
              ELSE Finish(how, NullData)
  /\ UNCHANGED <<build, url, attempt, waits, settled, fetches, pollWaits,
                 nPending, nOther, lastData, pollResult>>
  /\ UNCHANGED <<bgVars, scanVars, popupVars, extractVars>>

(* The 2000 ms settling timer fires; pollForSubmissionData starts. *)
Settle ==
  /\ pc = "settle"
  /\ settled' = TRUE
  /\ attempt' = 1
  /\ pc' = "poll"
  /\ UNCHANGED <<firstFound, build, url, probes, waits, submissionId, fetches, pollWaits,
                 nPending, nOther, lastData, pollResult, outcome, rec>>
  /\ UNCHANGED <<bgVars, scanVars, popupVars, extractVars>>

(* One fetchSubmissionData of pollForSubmissionData settles with resp,    *)
(* and what follows it without a timer.                                   *)
Poll ==
  /\ pc = "poll"
  /\ \E resp \in Responses(build) :
       LET data == fetchSubmissionData(build, resp)
           step == pollForSubmissionDataStep(data, attempt)
       IN  /\ fetches' = fetches + 1
           /\ lastData' = data
           /\ nPending' = IF data.state = "PENDING" THEN nPending + 1
                          ELSE nPending
           /\ nOther' = IF ~IsNull(data) /\ data.state # "PENDING"
                           /\ ~data.finished
                          THEN nOther + 1 ELSE nOther
           /\ \/ /\ step = "wait"
                 /\ pc' = "pollWait"
                 /\ UNCHANGED <<pollResult, outcome, rec>>
              \/ /\ step \in {"data", "null"}
                 /\ pollResult' = IF step = "data" THEN data ELSE NullData
                 /\ Finish(extractSubmissionStatsFromURLOnData(build,
                             pollResult'), pollResult')
  /\ UNCHANGED <<build, url, attempt, probes, waits, submissionId, settled,
                 pollWaits, firstFound>>
  /\ UNCHANGED <<bgVars, scanVars, popupVars, extractVars>>

(* The 1000 ms timer of pollForSubmissionData fires; attempt++ *)
PollWait ==
  /\ pc = "pollWait"
  /\ pollWaits' = pollWaits + 1
  /\ attempt' = attempt + 1
  /\ pc' = "poll"
  /\ UNCHANGED <<firstFound, build, url, probes, waits, submissionId, settled, fetches,
                 nPending, nOther, lastData, pollResult, outcome, rec>>
  /\ UNCHANGED <<bgVars, scanVars, popupVars, extractVars>>

(* The next submission is captured by a fresh Problem instance. *)
NewCapture ==
  /\ pc = "done"
  /\ pc' = "idle"
  /\ attempt' = 0
  /\ probes' = 0
  /\ waits' = 0
  /\ submissionId' = NoId
  /\ settled' = FALSE
  /\ fetches' = 0
  /\ pollWaits' = 0
  /\ nPending' = 0
  /\ nOther' = 0
  /\ lastData' = NullData
  /\ pollResult' = NullData
  /\ outcome' = "none"
  /\ rec' = EmptyRec
  /\ firstFound' = 0
  /\ page' = NoPage
  /\ language' = EmptyLanguage
  /\ code' = ""
  /\ UNCHANGED <<build, url>>
  /\ UNCHANGED <<bgVars, scanVars, popupVars>>

CaptureStep ==
  \/ StartWait
  \/ Probe
  \/ ProbeWait
  \/ StartRest
  \/ Settle
  \/ Poll
  \/ PollWait
  \/ NewCapture

----------------------------------------------------------------------------
(* Background script: LeetCodeStateManager *)

(* Bound of the model: passes (startSync / initCounter invocations) that  *)
(* may be in flight together.                                             *)
MaxPasses == 2

(* Bound of the model: out-of-band increments accepted while the sum of   *)
(* the counters is below it.                                              *)
MaxCount == 2

PassIds == 1..MaxPasses

ZeroCounter == [easy |-> 0, medium |-> 0, hard |-> 0]

Tiers == {"easy", "medium", "hard"}

(* String.prototype.toLowerCase on the difficulty strings in use. *)
toLowerCase(str) ==
  CASE str \in {"Easy", "EASY", "easy"}       -> "easy"
    [] str \in {"Medium", "MEDIUM", "medium"} -> "medium"
    [] str \in {"Hard", "HARD", "hard"}       -> "hard"
    [] str = "Insane"                         -> "insane"
    [] OTHER                                  -> str

(* "undefined" and "" are the falsy difficulties. *)
Falsy(str) == str \in {"undefined", ""}

State(c, complete, update, load) ==
  [counter |-> c, isCountingComplete |-> complete, lastUpdate |-> update,
   loading |-> load]

CurrentState == State(counter, isCountingComplete, lastUpdate, loading)

getStats(st) ==
  [easy |-> st.counter.easy, medium |-> st.counter.medium,
   hard |-> st.counter.hard, isCountingComplete |-> st.isCountingComplete,
   lastUpdate |-> st.lastUpdate, loading |-> st.loading]

NoBroadcast ==
  [easy |-> -1, medium |-> -1, hard |-> -1, isCountingComplete |-> FALSE,
   lastUpdate |-> "null", loading |-> FALSE]

(* The receivers of a statsUpdate message: a popup that listens, nobody   *)
(* (sendMessage rejects), or a receiver whose delivery fails.             *)
Observers == {"listening", "none", "failing"}

(* Variant: the rejection of sendMessage is not caught. *)
broadcastStateNoCatch(st, obs) ==
  [sent |-> getStats(st), threw |-> obs # "listening"]

(* broadcastState: the message sent and whether the call throws; the      *)
(* rejection of sendMessage is caught and dropped.                        *)
broadcastState(st, obs) ==
  [sent |-> getStats(st), threw |-> FALSE]

(* What a caller returns when its broadcast may have thrown. *)
Returned(ret, call) == IF call.threw THEN "throw" ELSE ret

(* Variant: the difficulty is compared without toLowerCase. *)
incrementCounterCaseSensitive(st, difficulty) ==
  IF Falsy(difficulty)
    THEN [state |-> st, ret |-> "undefined", broadcast |-> FALSE]
  ELSE IF difficulty \in Tiers
    THEN [state |->
            [st EXCEPT !.counter[difficulty] = @ + 1, !.lastUpdate = "date"],
          ret |-> "true", broadcast |-> TRUE]
  ELSE [state |-> st, ret |-> "false", broadcast |-> FALSE]

(* incrementCounter: the state after the call, what it returns, and       *)
(* whether it broadcasts.                                                 *)
incrementCounter(st, difficulty) ==
  IF Falsy(difficulty)
    THEN [state |-> st, ret |-> "undefined", broadcast |-> FALSE]
  ELSE IF toLowerCase(difficulty) \in Tiers
    THEN [state |->
            [st EXCEPT !.counter[toLowerCase(difficulty)] = @ + 1,
                       !.lastUpdate = "date"],
          ret |-> "true", broadcast |-> TRUE]
  ELSE [state |-> st, ret |-> "false", broadcast |-> FALSE]

(* Variant: a missing difficulty is not skipped, it lands in a tier. *)
RECURSIVE CountDifficultiesNoGuard(_, _)
CountDifficultiesNoGuard(c, difficulties) ==
  IF difficulties = <<>> THEN c
  ELSE LET d == Head(difficulties)
           c1 == IF Falsy(d) THEN [c EXCEPT !.hard = @ + 1]
                 ELSE IF toLowerCase(d) \in Tiers
                   THEN [c EXCEPT ![toLowerCase(d)] = @ + 1] ELSE c
       IN  CountDifficultiesNoGuard(c1, Tail(difficulties))

(* The forEach of updateStats over the difficulties, from counters c. *)
RECURSIVE CountDifficulties(_, _)
CountDifficulties(c, difficulties) ==
  IF difficulties = <<>> THEN c
  ELSE LET d == Head(difficulties)
           c1 == IF ~Falsy(d) /\ toLowerCase(d) \in Tiers
                   THEN [c EXCEPT ![toLowerCase(d)] = @ + 1] ELSE c
       IN  CountDifficulties(c1, Tail(difficulties))

(* Variant: the counters are not zeroed before the count. *)
updateStatsAccumulates(st, difficulties) ==
  State(CountDifficulties(st.counter, difficulties), TRUE, "date", FALSE)

(* updateStats: the state after the call (it always broadcasts). *)
updateStats(st, difficulties) ==
  State(CountDifficulties(ZeroCounter, difficulties), TRUE, "date", FALSE)

reset(st) == State(ZeroCounter, FALSE, "null", TRUE)

----------------------------------------------------------------------------
(* Background script: LeetCodeTrackerController *)

(* The own and inherited methods of the controller instance. *)
ControllerMethods ==
  {"constructor", "initializeMessageListeners", "saveUserInfos", "startSync",
   "initCounter"}

(* The difficulty catalog (question id -> tier); "99" has no entry. *)
Catalog == [q \in {"1", "2", "3"} |->
              CASE q = "1" -> "Easy" [] q = "2" -> "Medium" [] OTHER -> "Hard"]

FileLists == { <<"1", "2", "99">>, <<"1", "1">> }

(* Variant: a question id met before is looked up as absent. *)
difficultiesDistinct(files) ==
  [i \in DOMAIN files |->
     IF files[i] \in DOMAIN Catalog /\ (\A j \in 1..(i - 1) : files[j] # files[i])
       THEN Catalog[files[i]] ELSE "undefined"]

(* difficultyMap.get(problem.questionId) for each problem, in order. *)
difficulties(files) ==
  [i \in DOMAIN files |->
     IF files[i] \in DOMAIN Catalog THEN Catalog[files[i]] ELSE "undefined"]

Missing == ""

Configured(st) ==
  st.token # Missing /\ st.username # Missing /\ st.repo # Missing

(* Variant: reset() is called before the configuration is looked at. *)
initCounterBodyResetsFirst(st, cfg) ==
  IF ~Configured(cfg)
    THEN [state |-> [reset(st) EXCEPT !.loading = FALSE,
                                      !.isCountingComplete = TRUE],
          path |-> "unconfigured", fetching |-> FALSE]
  ELSE IF "getAllLeetCodeProblems" \notin ControllerMethods
    THEN [state |-> [reset(st) EXCEPT !.loading = FALSE,
                                      !.isCountingComplete = TRUE],
          path |-> "error", fetching |-> FALSE]
  ELSE [state |-> reset(st), path |-> "fetching", fetching |-> TRUE]

(* Variant: a configured pass does not call reset(). *)
initCounterBodyNoReset(st, cfg) ==
  IF ~Configured(cfg)
    THEN [state |-> [st EXCEPT !.loading = FALSE, !.isCountingComplete = TRUE],
          path |-> "unconfigured", fetching |-> FALSE]
  ELSE IF "getAllLeetCodeProblems" \notin ControllerMethods
    THEN [state |-> [st EXCEPT !.loading = FALSE,
                               !.isCountingComplete = TRUE],
          path |-> "error", fetching |-> FALSE]
  ELSE [state |-> st, path |-> "fetching", fetching |-> TRUE]

(* Variant: the early exit clears loading and leaves the completion flag. *)
initCounterBodyLoadingOnly(st, cfg) ==
  IF ~Configured(cfg)
    THEN [state |-> [st EXCEPT !.loading = FALSE],
          path |-> "unconfigured", fetching |-> FALSE]
  ELSE IF "getAllLeetCodeProblems" \notin ControllerMethods
    THEN [state |-> [reset(st) EXCEPT !.loading = FALSE,
                                      !.isCountingComplete = TRUE],
          path |-> "error", fetching |-> FALSE]
  ELSE [state |-> reset(st), path |-> "fetching", fetching |-> TRUE]

(* Variant: the catch block does not restore the flags. *)
initCounterBodyNoCatch(st, cfg) ==
  IF ~Configured(cfg)
    THEN [state |-> [st EXCEPT !.loading = FALSE, !.isCountingComplete = TRUE],
          path |-> "unconfigured", fetching |-> FALSE]
  ELSE [state |-> reset(st), path |-> "error", fetching |-> FALSE]

(* The body of initCounter from the resolution of storage.get to its      *)
(* first await or its end.  The early exit and the catch block leave the  *)
(* same flags; past reset(), the call this.getAllLeetCodeProblems() is    *)
(* evaluated first, and the controller has no such method (the scanner    *)
(* is a method of githubService): the TypeError is caught by initCounter. *)
initCounterBody(st, cfg) ==
  IF ~Configured(cfg)
    THEN [state |-> [st EXCEPT !.loading = FALSE, !.isCountingComplete = TRUE],
          path |-> "unconfigured", fetching |-> FALSE]
  ELSE IF "getAllLeetCodeProblems" \notin ControllerMethods
    THEN [state |-> [reset(st) EXCEPT !.loading = FALSE,
                                      !.isCountingComplete = TRUE],
          path |-> "error", fetching |-> FALSE]
  ELSE [state |-> reset(st), path |-> "fetching", fetching |-> TRUE]

(* Variant: the write after a throw leaves the in-progress flag alone. *)
startSyncWriteKeepsFlag(st, res) ==
  [st EXCEPT
     !.lastSyncStatus = IF res = "success" THEN "success" ELSE "failed",
     !.syncInProgress = IF res = "throw" THEN @ ELSE FALSE,
     !.lastSyncMessage = CASE res = "success" -> "result.message:ok"
                           [] res = "failure" -> "result.message:failed"
                           [] OTHER -> "error.message",
     !.lastSyncDate = "date"]

(* The storage write of startSync once syncService.startSync has settled  *)
(* with result kind res ("success", "failure" or "throw").                *)
startSyncWrite(st, res) ==
  [st EXCEPT
     !.lastSyncStatus = IF res = "success" THEN "success" ELSE "failed",
     !.syncInProgress = FALSE,
     !.lastSyncMessage = CASE res = "success" -> "result.message:ok"
                           [] res = "failure" -> "result.message:failed"
                           [] OTHER -> "error.message",
     !.lastSyncDate = "date"]

(* Variant: startSync has no catch block. *)
startSyncReturnNoCatch(res) ==
  [rejected |-> res = "throw", success |-> res = "success"]

(* What startSync hands to its caller once syncService.startSync has      *)
(* settled with result kind res: the result itself, or the                *)
(* {success: false} object of the catch block.                            *)
startSyncReturn(res) == [rejected |-> FALSE, success |-> res = "success"]

(* SyncService.startSync on entry: the Running state is persisted. *)
syncServiceEnter(st) == [st EXCEPT !.syncInProgress = TRUE]

SyncResults == {"success", "failure", "throw"}

(* An invocation in flight: what it runs, where it waits, who called it,  *)
(* and (history) whether no other invocation has started since it did.    *)
Pass(kind, at, origin, newest) ==
  [kind |-> kind, pc |-> at, origin |-> origin, newest |-> newest]

IdlePass == Pass("none", "idle", "none", FALSE)

(* Invocations have no identity in the code: the ones in flight are kept  *)
(* in the order they started, a new one takes the least identifier not in *)
(* use and one that ends hands its place to the ones after it.            *)
Free(p) ==
  /\ passes[p].kind = "none"
  /\ \A q \in PassIds : q < p => passes[q].kind # "none"

EndPass(p) ==
  passes' = [q \in PassIds |->
               IF q < p THEN passes[q]
               ELSE IF q + 1 \in PassIds THEN passes[q + 1] ELSE IdlePass]

(* Invocation p starts as pass: it is the newest, the others no longer. *)
StartPass(p, pass) ==
  passes' = [q \in PassIds |->
               IF q = p THEN pass ELSE [passes[q] EXCEPT !.newest = FALSE]]

(* History of the step taken last: what ran, how it ended, who called it, *)
(* the counters before it, the sendResponse calls it made, whether the    *)
(* invocation that took it goes on after it, for a step that settles an   *)
(* awaited promise the place of its invocation among those in flight, and *)
(* whether the storage.onChanged listener answered the change it made by  *)
(* calling initCounter.                                                   *)
Event(type, result, origin, pre) ==
  [type |-> type, outcome |-> result, origin |-> origin, pre |-> pre,
   responses |-> <<>>, pending |-> FALSE, slot |-> 0, fired |-> FALSE]

Step(ev, responses, pending) ==
  [ev EXCEPT !.responses = responses, !.pending = pending]

Answer(key, value) == [key |-> key, value |-> value]

(* The changes object handed to a storage.onChanged listener: the keys    *)
(* whose value differs.                                                   *)
Changes(st, st2) == { k \in DOMAIN st : st[k] # st2[k] }

(* Variant: the listener recounts on a change of any key. *)
onChangedAnyKey(changes, area) == area = "local" /\ changes # {}

(* The storage.onChanged listener: TRUE when it calls initCounter. *)
onChanged(changes, area) ==
  area = "local" /\ ("repo" \in changes \/ "mode" \in changes)

(* Variant: a synchronization that did not succeed is not answered. *)
handlerResponsesOnSuccess(type, result) ==
  CASE type = "updateDifficultyStats" -> <<Answer("success", result)>>
    [] type = "getDataConfig"         -> <<Answer("ENV", "ENV")>>
    [] type = "saveUserInfos"         -> <<Answer("success", "true")>>
    [] type = "syncSolvedProblems"    ->
         IF result = "success" THEN <<Answer("status", "completed")>>
         ELSE <<>>
    [] type = "requestInitialStats"   ->
         IF result = "rejected" THEN <<Answer("status", "failed")>>
         ELSE <<Answer("null", "null")>>
    [] OTHER                          -> <<>>

(* The sendResponse calls of the handler of a message of the given type   *)
(* once its operation has ended with result ("rejected": the awaited      *)
(* promise rejected, and the catch of the handler answers).               *)
handlerResponses(type, result) ==
  CASE type = "updateDifficultyStats" -> <<Answer("success", result)>>
    [] type = "getDataConfig"         -> <<Answer("ENV", "ENV")>>
    [] type = "saveUserInfos"         -> <<Answer("success", "true")>>
    [] type = "syncSolvedProblems"    ->
         IF result = "rejected" THEN <<Answer("status", "failed")>>
         ELSE <<Answer("status", "completed")>>
    [] type = "requestInitialStats"   ->
         IF result = "rejected" THEN <<Answer("status", "failed")>>
         ELSE <<Answer("null", "null")>>
    [] OTHER                          -> <<>>

InitBackground ==
  /\ counter = ZeroCounter
  /\ isCountingComplete = FALSE
  /\ lastUpdate = "null"
  /\ loading = TRUE
  /\ \E creds \in {Missing, "set"}, repo \in {Missing, "owner/name"} :
       storage = [token |-> creds, username |-> creds, repo |-> repo,
                  mode |-> IF repo = Missing THEN Missing ELSE "commit",
                  lastSyncStatus |-> "", syncInProgress |-> FALSE,
                  lastSyncMessage |-> "", lastSyncDate |-> "null"]
  /\ passes = [p \in PassIds |-> IdlePass]
  /\ lastBroadcast = NoBroadcast
  /\ remoteFiles \in FileLists
  /\ catalogUp \in BOOLEAN
  /\ observers = "none"
  /\ event = Event("none", "none", "none", ZeroCounter)

SetState(st) ==
  /\ counter' = st.counter
  /\ isCountingComplete' = st.isCountingComplete
  /\ lastUpdate' = st.lastUpdate
  /\ loading' = st.loading

(* initCounter is called by origin ("sync": startSync, "message":        *)
(* requestInitialStats, "storage": the onChanged listener): it issues     *)
(* storage.get and awaits it.                                             *)
CallInitCounter(p, origin) ==
  IF origin = "sync"
    THEN passes' = [passes EXCEPT
                      ![p] = Pass("count", "getting", origin, @.newest)]
    ELSE StartPass(p, Pass("count", "getting", origin, TRUE))

(* Message syncSolvedProblems: the handler calls startSync, which calls   *)
(* syncService.startSync and awaits it.                                   *)
syncSolvedProblems(p) ==
  /\ Free(p)
  /\ StartPass(p, Pass("sync", "syncing", "message", TRUE))
  /\ storage' = syncServiceEnter(storage)
  /\ event' = [Step(Event("syncStart", "none", "message", counter),
                    <<>>, TRUE)
                 EXCEPT !.fired = onChanged(Changes(storage, storage'), "local")]
  /\ UNCHANGED <<stateVars, lastBroadcast, remoteFiles, catalogUp, observers>>
  /\ UNCHANGED <<captureVars, scanVars, extractVars>>

(* The message comes from a sender other than the popup of the model. *)
MsgSyncSolvedProblems(p) == syncSolvedProblems(p) /\ UNCHANGED popupVars

(* syncService.startSync settles; startSync writes the status record,     *)
(* calls initCounter (without awaiting it) after a success, and returns.  *)
(* The write is the only storage access of the step, so the await of      *)
(* storage.set is folded into it.                                         *)
SyncSettles(p) ==
  /\ passes[p].kind = "sync" /\ passes[p].pc = "syncing"
  /\ \E res \in SyncResults :
       /\ storage' = startSyncWrite(storage, res)
       /\ event' = [Step(Event("syncEnd", res, "message", counter),
                         handlerResponses("syncSolvedProblems",
                           IF startSyncReturn(res).rejected
                             THEN "rejected" ELSE res),
                         res = "success")
                      EXCEPT !.slot = p,
                             !.fired = onChanged(Changes(storage, storage'),
                                                 "local")]
       /\ IF res = "success"
            THEN CallInitCounter(p, "sync")
            ELSE EndPass(p)
  /\ UNCHANGED <<stateVars, lastBroadcast, remoteFiles, catalogUp, observers>>
  /\ UNCHANGED <<captureVars, scanVars, popupVars, extractVars>>

(* Message requestInitialStats: the handler calls initCounter. *)
MsgRequestInitialStats(p) ==
  /\ Free(p)
  /\ CallInitCounter(p, "message")
  /\ event' = Step(Event("countStart", "none", "message", counter), <<>>, TRUE)
  /\ UNCHANGED <<stateVars, storage, lastBroadcast, remoteFiles, catalogUp, observers>>
  /\ UNCHANGED <<captureVars, scanVars, popupVars, extractVars>>

(* storage.get of initCounter resolves and initCounter runs to its end.   *)
CountGetResolves(p) ==
  /\ passes[p].kind = "count" /\ passes[p].pc = "getting"
  /\ LET r == initCounterBody(CurrentState, storage)
         b == broadcastState(r.state, observers)
     IN  /\ ~r.fetching
         /\ SetState(r.state)
         /\ lastBroadcast' = b.sent
         /\ event' = [Step(Event("countEnd", Returned(r.path, b),
                                 passes[p].origin, counter),
                           IF passes[p].origin = "message"
                             THEN handlerResponses("requestInitialStats",
                                                   r.path)
                             ELSE <<>>,
                           FALSE) EXCEPT !.slot = p]
  /\ EndPass(p)
  /\ UNCHANGED <<storage, remoteFiles, catalogUp, observers>>
  /\ UNCHANGED <<captureVars, scanVars, popupVars, extractVars>>

(* The values of request.difficulty in use: the three tiers in mixed      *)
(* letter case, an unknown tier, the empty string and a missing field.    *)
Difficulties == {"Easy", "medium", "HARD", "Insane", "", "undefined"}

(* Message updateDifficultyStats with request.difficulty = difficulty. *)
MsgUpdateDifficultyStatsWith(difficulty) ==
  /\ counter.easy + counter.medium + counter.hard < MaxCount
  /\ LET r == incrementCounter(CurrentState, difficulty)
         b == broadcastState(r.state, observers)
     IN  /\ SetState(r.state)
         /\ lastBroadcast' = IF r.broadcast THEN b.sent ELSE lastBroadcast
         /\ event' = Step(Event("increment",
                                IF r.broadcast THEN Returned(r.ret, b) ELSE r.ret,
                                "message", counter),
                          handlerResponses("updateDifficultyStats", r.ret),
                          FALSE)
  /\ UNCHANGED <<storage, passes, remoteFiles, catalogUp, observers>>
  /\ UNCHANGED <<captureVars, scanVars, popupVars, extractVars>>

(* Message updateDifficultyStats from a content script. *)
MsgUpdateDifficultyStats ==
  \E difficulty \in Difficulties : MsgUpdateDifficultyStatsWith(difficulty)

(* Message saveUserInfos. *)
MsgSaveUserInfos ==
  /\ storage' = [storage EXCEPT !.username = "set", !.token = "set"]
  /\ storage' # storage
  /\ event' = [Step(Event("save", "none", "message", counter),
                    handlerResponses("saveUserInfos", "none"), FALSE)
                 EXCEPT !.fired = onChanged(Changes(storage, storage'), "local")]
  /\ UNCHANGED <<stateVars, passes, lastBroadcast, remoteFiles, catalogUp, observers>>
  /\ UNCHANGED <<captureVars, scanVars, popupVars, extractVars>>

(* Message getDataConfig: the handler answers ENV. *)
MsgGetDataConfig ==
  /\ event' = Step(Event("config", "none", "message", counter),
                   handlerResponses("getDataConfig", "none"), FALSE)
  /\ UNCHANGED <<stateVars, storage, passes, lastBroadcast, remoteFiles,
                 catalogUp, observers>>
  /\ UNCHANGED <<captureVars, scanVars, popupVars, extractVars>>

(* The popup links a repository (linkRepo) or unlinks it (unlinkRepo);    *)
(* the storage.onChanged listener sees leetcode_tracker_repo or           *)
(* leetcode_tracker_mode change and calls initCounter.                    *)
RepoChanges(p) ==
  /\ Free(p)
  /\ \/ /\ storage.repo = Missing
        /\ storage' = [storage EXCEPT !.repo = "owner/name", !.mode = "commit"]
     \/ /\ storage.repo # Missing
        /\ storage' = [storage EXCEPT !.repo = Missing, !.mode = Missing]
  /\ IF onChanged(Changes(storage, storage'), "local")
       THEN CallInitCounter(p, "storage")
       ELSE UNCHANGED passes
  /\ event' = [Step(Event("repoChange", "none", "storage", counter), <<>>,
                    onChanged(Changes(storage, storage'), "local"))
                 EXCEPT !.fired = onChanged(Changes(storage, storage'), "local")]
  /\ UNCHANGED <<stateVars, lastBroadcast, remoteFiles, catalogUp, observers>>
  /\ UNCHANGED <<captureVars, scanVars, popupVars, extractVars>>

(* A change of the same keys in another storage area (sync, session, ...) *)
(* reaches the listener too; chrome.storage.local is not touched.         *)
OtherAreaChanges ==
  /\ event' = [Event("areaChange", "none", "storage", counter)
                 EXCEPT !.fired = onChanged({"repo", "mode"}, "sync")]
  /\ event' # event
  /\ UNCHANGED <<stateVars, storage, passes, lastBroadcast, remoteFiles,
                 catalogUp, observers>>
  /\ UNCHANGED <<captureVars, scanVars, popupVars, extractVars>>

(* Bound of the model: files in the scan result handed to the             *)
(* reconciliation.                                                        *)
MaxFiles == 3

ProblemIds == {"1", "2", "3", "99"}

ProblemLists == UNION { [1..n -> ProblemIds] : n \in 0..MaxFiles }

(* The reconciliation of initCounter: the problems are mapped to their    *)
(* difficulties and handed to updateStats, which broadcasts.              *)
Reconcile ==
  /\ LET st == updateStats(CurrentState, difficulties(remoteFiles))
         b == broadcastState(st, observers)
     IN  /\ SetState(st)
         /\ lastBroadcast' = b.sent
         /\ event' = Event("reconcile", Returned("ok", b), "none", counter)
  /\ UNCHANGED <<storage, passes, remoteFiles, catalogUp, observers>>
  /\ UNCHANGED <<captureVars, scanVars, popupVars, extractVars>>

(* A popup opens or closes, or the delivery to it starts to fail. *)
ObserversChange ==
  /\ \E obs \in Observers \ {observers} : observers' = obs
  /\ event' = Event("observers", "none", "none", counter)
  /\ UNCHANGED <<stateVars, storage, passes, lastBroadcast, remoteFiles,
                 catalogUp>>
  /\ UNCHANGED <<captureVars, scanVars, popupVars, extractVars>>

BackgroundStep ==
  \/ \E p \in PassIds : MsgSyncSolvedProblems(p)
  \/ \E p \in PassIds : SyncSettles(p)
  \/ \E p \in PassIds : MsgRequestInitialStats(p)
  \/ \E p \in PassIds : CountGetResolves(p)
  \/ MsgUpdateDifficultyStats
  \/ MsgSaveUserInfos
  \/ MsgGetDataConfig
  \/ \E p \in PassIds : RepoChanges(p)

----------------------------------------------------------------------------
(* Background script: GitHubService *)

(* File names are sequences of one-character strings. *)
Digits == {"0", "1", "2", "3", "4", "5", "6", "7", "8", "9"}

(* The class \s on the characters in use: space, tab, line feed. *)
IsSpace(c) == c \in {" ", "\t", "\n"}

(* The class . (any character but a line terminator). *)
IsAnyChar(c) == c \notin {"\n", "\r"}

(* One step of the pattern four digits, whitespace+, any+, dot, any+,     *)
(* anchored at both ends, as a set of positions in the pattern:           *)
(*   "d0".."d4" digits read, "w" whitespace read, "n" inside the first    *)
(*   any+, "dot" the literal dot just read, "e" inside the last any+.     *)
PatternStep(S, c) ==
  {t \in {"d1", "d2", "d3", "d4", "w", "n", "dot", "e"} :
     \/ t = "d1" /\ "d0" \in S /\ c \in Digits
     \/ t = "d2" /\ "d1" \in S /\ c \in Digits
     \/ t = "d3" /\ "d2" \in S /\ c \in Digits
     \/ t = "d4" /\ "d3" \in S /\ c \in Digits
     \/ t = "w" /\ ("d4" \in S \/ "w" \in S) /\ IsSpace(c)
     \/ t = "n" /\ ("w" \in S \/ "n" \in S) /\ IsAnyChar(c)
     \/ t = "dot" /\ "n" \in S /\ c = "."
     \/ t = "e" /\ ("dot" \in S \/ "e" \in S) /\ IsAnyChar(c)}

RECURSIVE PatternRun(_, _)
PatternRun(S, name) ==
  IF name = <<>> THEN S ELSE PatternRun(PatternStep(S, Head(name)), Tail(name))

(* The test of the file-name pattern of getAllLeetCodeProblems. *)
PatternTest(name) == "e" \in PatternRun({"d0"}, name)

DigitVal(c) ==
  CASE c = "0" -> 0 [] c = "1" -> 1 [] c = "2" -> 2 [] c = "3" -> 3
    [] c = "4" -> 4 [] c = "5" -> 5 [] c = "6" -> 6 [] c = "7" -> 7
    [] c = "8" -> 8 [] OTHER -> 9

DigitChar(n) ==
  CASE n = 0 -> "0" [] n = 1 -> "1" [] n = 2 -> "2" [] n = 3 -> "3"
    [] n = 4 -> "4" [] n = 5 -> "5" [] n = 6 -> "6" [] n = 7 -> "7"
    [] n = 8 -> "8" [] OTHER -> "9"

(* parseInt(str, 10) of a digit string. *)
RECURSIVE parseInt(_)
parseInt(str) ==
  IF str = <<>> THEN 0
  ELSE parseInt(SubSeq(str, 1, Len(str) - 1)) * 10 + DigitVal(str[Len(str)])

(* Number.prototype.toString of a non-negative integer. *)
RECURSIVE toString(_)
toString(n) ==
  IF n < 10 THEN <<DigitChar(n)>>
  ELSE toString(n \div 10) \o <<DigitChar(n % 10)>>

(* Variant: the prefix is returned as written. *)
convertGithubToLeetCodeSlugRaw(githubFileName) ==
  IF /\ Len(githubFileName) >= 5
     /\ \A i \in 1..4 : githubFileName[i] \in Digits
     /\ IsSpace(githubFileName[5])
    THEN SubSeq(githubFileName, 1, 4)
    ELSE <<>>

(* convertGithubToLeetCodeSlug: four digits and at least one whitespace   *)
(* at the start, else the empty string.                                   *)
convertGithubToLeetCodeSlug(githubFileName) ==
  IF /\ Len(githubFileName) >= 5
     /\ \A i \in 1..4 : githubFileName[i] \in Digits
     /\ IsSpace(githubFileName[5])
    THEN toString(parseInt(SubSeq(githubFileName, 1, 4)))
    ELSE <<>>

(* The stored repository strings: none, "owner/name", and the legacy      *)
(* form holding the repository name alone.                                *)
RepoStrings == {"", "owner/name", "name"}

NullRepo == [username |-> "null", repositoryName |-> "null"]

parseRepositoryString(repoString, fallbackUsername) ==
  IF repoString = "" THEN NullRepo
  ELSE IF repoString = "owner/name"
    THEN [username |-> "owner", repositoryName |-> "name"]
  ELSE [username |-> fallbackUsername, repositoryName |-> repoString]

(* buildBasicGithubUrl once storage.get has resolved with cfg. *)
buildBasicGithubUrl(cfg) ==
  LET parsedRepo == parseRepositoryString(cfg.repo, cfg.username)
  IN  IF parsedRepo = NullRepo
        THEN [threw |-> TRUE, url |-> <<>>]
        ELSE [threw |-> FALSE,
              url |-> <<parsedRepo.username, "/", parsedRepo.repositoryName,
                        "/contents/">>]

Entry(type, name) == [type |-> type, name |-> name]

(* A listing answer: the fetch rejects ("error"), answers a non-2xx       *)
(* status ("notok"), a body json() cannot parse ("badjson"), a body that  *)
(* is not an array ("notarray"), or an array of entries ("ok").           *)
Listing(kind, entries) == [kind |-> kind, entries |-> entries]

FailedListings ==
  { Listing(k, <<>>) : k \in {"error", "notok", "badjson", "notarray"} }

TopListings ==
  { <<>>,
    <<Entry("file", <<"R">>)>>,
    <<Entry("dir", <<"p">>)>>,
    <<Entry("dir", <<"p">>), Entry("file", <<"0", "0", "0", "1", " ", "a", ".", "b">>),
      Entry("dir", <<"g">>)>>,
    <<Entry("dir", <<"p">>), Entry("dir", <<"g">>), Entry("dir", <<"j">>)>> }

FileNames ==
  { <<"0", "0", "0", "1", " ", "a", ".", "b">>,
    <<"0", "0", "0", "2", "\t", "a", ".", "b">>,
    <<"0", "0", "0", "0", " ", "a", ".", "b">>,
    <<"0", "0", "9", "9", " ", " ", "x", ".", "y", ".", "z">>,
    <<"0", "0", "1", "0", "\n", "a", ".", "b">>,
    <<"1", "2", "3", "4", " ", ".", ".", "b">>,
    <<"0", "0", "0", "1", " ", ".", "b">>,
    <<"0", "0", "0", "1", " ", "a", ".">>,
    <<"0", "0", "0", "1", "a", ".", "b">>,
    <<"0", "0", "1", " ", "a", ".", "b">>,
    <<"0", "0", "0", "1", "2", " ", "a", ".", "b">>,
    <<"a", "0", "0", "0", "1", " ", "a", ".", "b">>,
    <<"0", "0", "0", "1", " ", "a", "b">>,
    <<"0", "0", "0", "1", " ", "a", "\n", ".", "b">>,
    <<"0", "0", "0", "1", " ", "a", ".", "b", "\n">>,
    <<"R">> }

FolderListings ==
  { <<>>,
    <<Entry("file", <<"0", "0", "0", "1", " ", "a", ".", "b">>),
      Entry("file", <<"0", "0", "0", "2", "\t", "a", ".", "b">>),
      Entry("file", <<"R">>)>>,
    <<Entry("dir", <<"0", "0", "0", "1", " ", "a", ".", "b">>),
      Entry("file", <<"0", "0", "0", "0", " ", "a", ".", "b">>),
      Entry("file", <<"0", "0", "9", "9", " ", " ", "x", ".", "y", ".", "z">>),
      Entry("symlink", <<"1", "2", "3", "4", " ", ".", ".", "b">>)>>,
    <<Entry("file", <<"0", "0", "1", "0", "\n", "a", ".", "b">>),
      Entry("file", <<"1", "2", "3", "4", " ", ".", ".", "b">>),
      Entry("file", <<"0", "0", "0", "1", " ", ".", "b">>),
      Entry("file", <<"0", "0", "0", "1", " ", "a", ".">>),
      Entry("file", <<"0", "0", "0", "1", "a", ".", "b">>)>>,
    <<Entry("file", <<"0", "0", "1", " ", "a", ".", "b">>),
      Entry("file", <<"0", "0", "0", "1", "2", " ", "a", ".", "b">>),
      Entry("file", <<"a", "0", "0", "0", "1", " ", "a", ".", "b">>),
      Entry("file", <<"0", "0", "0", "1", " ", "a", "b">>),
      Entry("file", <<"0", "0", "0", "1", " ", "a", "\n", ".", "b">>),
      Entry("file", <<"0", "0", "0", "1", " ", "a", ".", "b", "\n">>)>>,
    <<Entry("file", <<"0", "0", "0", "1", " ", "a", ".", "b">>),
      Entry("file", <<"0", "0", "0", "1", " ", "a", ".", "b">>)>> }

TopAnswers == FailedListings \cup { Listing("ok", t) : t \in TopListings }

FolderAnswers == FailedListings \cup { Listing("ok", f) : f \in FolderListings }

ProblemOf(file, folder) ==
  [originalName |-> file.name,
   questionId |-> convertGithubToLeetCodeSlug(file.name),
   language |-> folder]

RECURSIVE MapProblems(_, _)
MapProblems(files, folder) ==
  IF files = <<>> THEN <<>>
  ELSE <<ProblemOf(Head(files), folder)>> \o MapProblems(Tail(files), folder)

(* Variant: the entry type is not tested. *)
folderProblemsAnyType(folder, folderData) ==
  LET Keep(file) == PatternTest(file.name)
  IN  MapProblems(SelectSeq(folderData, Keep), folder)

(* folderData.filter(...).map(...) of one language folder. *)
folderProblems(folder, folderData) ==
  LET Keep(file) == file.type = "file" /\ PatternTest(file.name)
  IN  MapProblems(SelectSeq(folderData, Keep), folder)

(* Variant: a failing folder empties what was collected so far. *)
scanFolderDrops(all, folder, answer) ==
  IF answer.kind = "ok" THEN all \o folderProblems(folder, answer.entries)
  ELSE <<>>

(* One iteration of the loop over the language folders: allProblems       *)
(* after it.  A non-ok answer is skipped, a rejected fetch, an unparsable *)
(* body or a body without filter() is caught inside the loop.             *)
scanFolder(all, folder, answer) ==
  IF answer.kind = "ok" THEN all \o folderProblems(folder, answer.entries)
  ELSE all

RECURSIVE DirNames(_)
DirNames(data) ==
  IF data = <<>> THEN <<>>
  ELSE (IF Head(data).type = "dir" THEN <<Head(data).name>> ELSE <<>>)
       \o DirNames(Tail(data))

(* Variant: a rejected top-level fetch is rethrown. *)
scanTopLevelRethrows(answer) ==
  IF answer.kind = "error" THEN [how |-> "throw", folders |-> <<>>]
  ELSE IF answer.kind # "ok" THEN [how |-> "return", folders |-> <<>>]
  ELSE IF DirNames(answer.entries) = <<>>
    THEN [how |-> "return", folders |-> <<>>]
  ELSE [how |-> "loop", folders |-> DirNames(answer.entries)]

(* getAllLeetCodeProblems once the top-level listing has answered: return *)
(* (an empty list) or enter the loop over the language folders.           *)
scanTopLevel(answer) ==
  IF answer.kind # "ok" THEN [how |-> "return", folders |-> <<>>]
  ELSE IF DirNames(answer.entries) = <<>>
    THEN [how |-> "return", folders |-> <<>>]
  ELSE [how |-> "loop", folders |-> DirNames(answer.entries)]

(* Variant: the error of buildBasicGithubUrl reaches the caller. *)
scanConfigPropagates(readable, cfg) ==
  IF ~readable THEN "return"
  ELSE IF buildBasicGithubUrl(cfg).threw THEN "throw"
  ELSE "fetch"

(* getAllLeetCodeProblems once storage.get has settled (resolved with cfg *)
(* when readable, rejected otherwise): return an empty list from the      *)
(* outer catch, or fetch the top-level listing.                           *)
scanConfig(readable, cfg) ==
  IF ~readable THEN "return"
  ELSE IF buildBasicGithubUrl(cfg).threw THEN "return"
  ELSE "fetch"

NoResult == [how |-> "none", problems |-> <<>>]

InitScan ==
  /\ scanPc = "idle"
  /\ scanUrl = <<>>
  /\ topAnswer = Listing("none", <<>>)
  /\ folders = <<>>
  /\ allProblems = <<>>
  /\ seen = <<>>
  /\ scanResult = NoResult

(* getAllLeetCodeProblems is called: buildBasicGithubUrl reads storage. *)
ScanCall ==
  /\ scanPc = "idle"
  /\ scanPc' = "config"
  /\ UNCHANGED <<scanUrl, topAnswer, folders, allProblems, seen, scanResult>>
  /\ UNCHANGED <<captureVars, bgVars, popupVars, extractVars>>

(* storage.get settles. *)
ScanConfig ==
  /\ scanPc = "config"
  /\ \E readable \in BOOLEAN :
       LET next == scanConfig(readable, storage)
       IN  IF next = "fetch"
             THEN /\ scanPc' = "top"
                  /\ scanUrl' = buildBasicGithubUrl(storage).url
                  /\ UNCHANGED scanResult
             ELSE /\ scanPc' = "done"
                  /\ scanResult' = [how |-> next, problems |-> <<>>]
                  /\ UNCHANGED scanUrl
  /\ UNCHANGED <<topAnswer, folders, allProblems, seen>>
  /\ UNCHANGED <<captureVars, bgVars, popupVars, extractVars>>

(* The top-level listing answers. *)
ScanTop ==
  /\ scanPc = "top"
  /\ \E answer \in TopAnswers :
       LET r == scanTopLevel(answer)
       IN  /\ topAnswer' = answer
           /\ folders' = r.folders
           /\ IF r.how = "loop"
                THEN scanPc' = "dirs" /\ UNCHANGED scanResult
                ELSE /\ scanPc' = "done"
                     /\ scanResult' = [how |-> r.how, problems |-> <<>>]
  /\ UNCHANGED <<scanUrl, allProblems, seen>>
  /\ UNCHANGED <<captureVars, bgVars, popupVars, extractVars>>

(* The listing of the next language folder answers. *)
ScanDir ==
  /\ scanPc = "dirs"
  /\ \E answer \in FolderAnswers :
       LET all == scanFolder(allProblems, Head(folders), answer)
       IN  /\ allProblems' = all
           /\ seen' = Append(seen, [folder |-> Head(folders),
                                    answer |-> answer])
           /\ folders' = Tail(folders)
           /\ IF Tail(folders) = <<>>
                THEN /\ scanPc' = "done"
                     /\ scanResult' = [how |-> "return", problems |-> all]
                ELSE UNCHANGED <<scanPc, scanResult>>
  /\ UNCHANGED <<scanUrl, topAnswer>>
  /\ UNCHANGED <<captureVars, bgVars, popupVars, extractVars>>

(* The scan has returned; the scanner may be called again. *)
ScanReturn ==
  /\ scanPc = "done"
  /\ scanPc' = "idle"
  /\ scanUrl' = <<>>
  /\ topAnswer' = Listing("none", <<>>)
  /\ folders' = <<>>
  /\ allProblems' = <<>>
  /\ seen' = <<>>
  /\ scanResult' = NoResult
  /\ UNCHANGED <<captureVars, bgVars, popupVars, extractVars>>

ScanStep ==
  \/ ScanCall
  \/ ScanConfig
  \/ ScanTop
  \/ ScanDir
  \/ ScanReturn

----------------------------------------------------------------------------
(* Popup: PopupManager *)

(* Bound of the model: calls of updateSyncStatus awaiting storage.get. *)
MaxReads == 2

(* startManualSync, run by a click on the sync button (a disabled button  *)
(* gets no click): it disables the button, sends syncSolvedProblems and   *)
(* calls updateSyncStatus, which issues storage.get.                      *)
startManualSync ==
  /\ ~syncButtonDisabled
  /\ outbox < MaxPasses /\ statusReads < MaxReads
  /\ syncButtonDisabled' = TRUE
  /\ outbox' = outbox + 1
  /\ statusReads' = statusReads + 1
  /\ UNCHANGED <<captureVars, bgVars, scanVars, extractVars>>

(* The interval timer of the constructor calls updateSyncStatus. *)
SyncStatusTimer ==
  /\ statusReads < MaxReads
  /\ statusReads' = statusReads + 1
  /\ UNCHANGED <<syncButtonDisabled, outbox>>
  /\ UNCHANGED <<captureVars, bgVars, scanVars, extractVars>>

(* updateSyncStatus once storage.get has resolved with st: the value it   *)
(* gives DOM.syncButton.disabled.                                         *)
updateSyncStatus(st) == st.syncInProgress

(* storage.get of a call of updateSyncStatus resolves. *)
SyncStatusResolves ==
  /\ statusReads > 0
  /\ statusReads' = statusReads - 1
  /\ syncButtonDisabled' = updateSyncStatus(storage)
  /\ UNCHANGED outbox
  /\ UNCHANGED <<captureVars, bgVars, scanVars, extractVars>>

(* A syncSolvedProblems message of the popup reaches the listener of the  *)
(* background script.                                                     *)
DeliverSyncSolvedProblems(p) ==
  /\ outbox > 0
  /\ outbox' = outbox - 1
  /\ syncSolvedProblems(p)
  /\ UNCHANGED <<syncButtonDisabled, statusReads>>

PopupStep ==
  \/ startManualSync
  \/ SyncStatusTimer
  \/ SyncStatusResolves
  \/ \E p \in PassIds : DeliverSyncSolvedProblems(p)

(* A popup has just been constructed: its first updateSyncStatus is out. *)
InitPopupOpen ==
  /\ syncButtonDisabled = FALSE
  /\ outbox = 0
  /\ statusReads = 1

(* No popup is open. *)
InitPopupClosed ==
  /\ syncButtonDisabled = FALSE
  /\ outbox = 0
  /\ statusReads = 0

----------------------------------------------------------------------------
(* Specifications *)

(* The capture alone: the background script stays as constructed. *)
InitCaptureOnly ==
  /\ InitCapture
  /\ InitBackground
  /\ InitScan
  /\ InitPopupClosed
  /\ storage.token = Missing /\ storage.repo = Missing
  /\ remoteFiles = <<"1", "2", "99">>
  /\ catalogUp = TRUE

(* The background script alone: no capture runs, no popup is open, and    *)
(* the catalog endpoint is down (no step of the background script gets as *)
(* far as reading it, see initCounterBody).                               *)
InitSyncOnly ==
  /\ InitCapture
  /\ build = "graphql" /\ url = "problem"
  /\ InitBackground
  /\ remoteFiles = <<"1", "2", "99">>
  /\ catalogUp = FALSE
  /\ InitScan
  /\ InitPopupClosed

(* The repository scanner alone, called on every stored configuration. *)
InitScanOnly ==
  /\ InitCapture
  /\ build = "graphql" /\ url = "problem"
  /\ counter = ZeroCounter
  /\ isCountingComplete = FALSE
  /\ lastUpdate = "null"
  /\ loading = TRUE
  /\ \E name \in {Missing, "set"}, repo \in RepoStrings :
       storage = [token |-> name, username |-> name, repo |-> repo,
                  mode |-> IF repo = Missing THEN Missing ELSE "commit",
                  lastSyncStatus |-> "", syncInProgress |-> FALSE,
                  lastSyncMessage |-> "", lastSyncDate |-> "null"]
  /\ passes = [p \in PassIds |-> IdlePass]
  /\ lastBroadcast = NoBroadcast
  /\ remoteFiles = <<>>
  /\ catalogUp = TRUE
  /\ observers = "none"
  /\ event = Event("none", "none", "none", ZeroCounter)
  /\ InitScan
  /\ InitPopupClosed

(* The reconciliation alone, on every scan result within the bound. *)
InitReconcileOnly ==
  /\ InitCapture
  /\ build = "graphql" /\ url = "problem"
  /\ counter = ZeroCounter
  /\ isCountingComplete = FALSE
  /\ lastUpdate = "null"
  /\ loading = TRUE
  /\ storage = [token |-> "set", username |-> "set", repo |-> "owner/name",
                mode |-> "commit", lastSyncStatus |-> "",
                syncInProgress |-> FALSE, lastSyncMessage |-> "",
                lastSyncDate |-> "null"]
  /\ passes = [p \in PassIds |-> IdlePass]
  /\ lastBroadcast = NoBroadcast
  /\ remoteFiles \in ProblemLists
  /\ catalogUp = TRUE
  /\ observers \in Observers
  /\ event = Event("none", "none", "none", ZeroCounter)
  /\ InitScan
  /\ InitPopupClosed

(* The extraction functions alone, on every page within the bounds. *)
InitExtractOnly ==
  /\ InitCapture
  /\ url = "problem"
  /\ InitBackground
  /\ storage.token = Missing /\ storage.repo = Missing
  /\ remoteFiles = <<"1", "2", "99">>
  /\ catalogUp = FALSE
  /\ InitScan
  /\ InitPopupClosed

(* The popup and the synchronization it asks for; the popup is the only   *)
(* sender of syncSolvedProblems.                                          *)
InitPopupAndSync ==
  /\ InitCapture
  /\ build = "graphql" /\ url = "problem"
  /\ InitBackground
  /\ remoteFiles = <<"1", "2", "99">>
  /\ catalogUp = TRUE
  /\ InitScan
  /\ InitPopupOpen

Init == InitCapture /\ InitBackground /\ InitScan /\ InitPopupClosed

NextCapture == CaptureStep \/ Navigate

NextSync == BackgroundStep

NextScan == ScanStep

NextPopup ==
  \/ PopupStep
  \/ \E p \in PassIds : SyncSettles(p)
  \/ \E p \in PassIds : CountGetResolves(p)

NextReconcile == Reconcile \/ MsgUpdateDifficultyStats \/ ObserversChange

(* The running extension.  The scanner and the reconciliation are not     *)
(* reached by it (see initCounterBody); SpecScan and SpecReconcile apply  *)
(* them to every input within the bounds.                                 *)
Next == NextCapture \/ NextSync

Spec == Init /\ [][Next]_vars

SpecCapture == InitCaptureOnly /\ [][NextCapture]_vars

(* Timers fire and fetches settle: a capture that can step does step.     *)
FairCapture == SpecCapture /\ WF_vars(CaptureStep)

SpecSync == InitSyncOnly /\ [][NextSync]_vars

SpecScan == InitScanOnly /\ [][NextScan]_vars

SpecReconcile == InitReconcileOnly /\ [][NextReconcile]_vars

SpecPopup == InitPopupAndSync /\ [][NextPopup]_vars

SpecExtract == InitExtractOnly /\ [][ExtractStep]_vars

(* Promises settle: a pending syncService.startSync and a pending         *)
(* storage.get do resolve.  Messages and storage changes may never come.  *)
FairSync ==
  /\ SpecSync
  /\ WF_vars(\E p \in PassIds : SyncSettles(p))
  /\ WF_vars(\E p \in PassIds : CountGetResolves(p))

(* The invocations of startSync and initCounter alone, each of whose      *)
(* pending promises settles (the oldest one keeps its place until it      *)
(* ends), beside the other steps that change the storage.  The messages   *)
(* that neither start an invocation nor write the storage are left out.   *)
NextPasses ==
  \/ \E p \in PassIds :
       \/ MsgSyncSolvedProblems(p)
       \/ SyncSettles(p)
       \/ MsgRequestInitialStats(p)
       \/ CountGetResolves(p)
       \/ RepoChanges(p)
  \/ MsgSaveUserInfos
  \/ OtherAreaChanges

FairPasses ==
  /\ InitSyncOnly /\ [][NextPasses]_vars
  /\ \A p \in PassIds : WF_vars(SyncSettles(p))
  /\ \A p \in PassIds : WF_vars(CountGetResolves(p))

----------------------------------------------------------------------------
(* Properties of the capture *)

InWaitLoop == pc \in {"probe", "probeWait"}
InPollLoop == pc \in {"poll", "pollWait"}
WaitReturned == build = "graphql" /\ pc \in {"settle", "poll", "pollWait", "done"}
Finished(data) == ~IsNull(data) /\ data.state # "PENDING" /\ data.finished

C1_Bounded ==
  /\ probes <= waitMaxAttempts
  /\ waits <= waitMaxAttempts - 1
  /\ (WaitReturned /\ submissionId # NoId =>
        /\ firstFound = probes
        /\ waits = probes - 1)
  /\ (WaitReturned /\ submissionId = NoId =>
        /\ firstFound = 0
        /\ probes = waitMaxAttempts
        /\ waits = waitMaxAttempts - 1)

(* C1: waitForSubmissionURL always terminates, after at most 20 probes    *)
(* and 19 waits: it returns the id at the first probe that sees one, and  *)
(* null after the 20th probe without one.                                 *)
C1_WaitTerminates == []C1_Bounded /\ (InWaitLoop ~> ~InWaitLoop)

C1_Witness ==
  /\ WaitReturned /\ submissionId = NoId
  /\ probes = waitMaxAttempts /\ waits = waitMaxAttempts - 1

(* C2: Pending on polls 1..k-1 and a finished result on poll k (k in      *)
(* 1..10): the poller goes on polling after each Pending answer, returns  *)
(* the finished result after exactly k fetches and k-1 waits, and         *)
(* fetches no more.                                                       *)
C2_PendingThenFinished ==
  /\ (lastData.state = "PENDING" /\ fetches < pollMaxAttempts => InPollLoop)
  /\ \A k \in 1..pollMaxAttempts :
       (fetches = k /\ nPending = k - 1 /\ Finished(lastData)) =>
          /\ pc = "done"
          /\ pollResult = lastData
          /\ ~IsNull(pollResult)
          /\ pollWaits = k - 1
          /\ outcome = "api"

C2_Witness ==
  /\ fetches = pollMaxAttempts /\ nPending = pollMaxAttempts - 1
  /\ lastData.status_msg = "Accepted" /\ Finished(lastData)
  /\ pollResult = lastData /\ pc = "done"

(* C3: a finished result is returned as a non-null record whether or not  *)
(* its status is Accepted.                                                *)
C3_FinishedReturned ==
  (fetches > 0 /\ Finished(lastData)) =>
     /\ pc = "done"
     /\ pollResult = lastData
     /\ ~IsNull(pollResult)
     /\ outcome = "api"
     /\ rec = extractSubmissionStatsFromAPI(EmptyRec, lastData)

C3_Witness ==
  /\ fetches > 0 /\ Finished(lastData)
  /\ lastData.status_msg # "Accepted"
  /\ ~IsNull(pollResult) /\ outcome = "api"

(* C4: a poll that yields no data ends the result-readiness loop at that  *)
(* attempt: null is returned, with no further fetch and no further wait.  *)
C4_NoDataStops ==
  (fetches > 0 /\ IsNull(lastData)) =>
     /\ pc = "done"
     /\ IsNull(pollResult)
     /\ outcome # "api"
     /\ pollWaits = fetches - 1

C4_Witness ==
  /\ fetches = 4 /\ IsNull(lastData) /\ pc = "done" /\ pollWaits = 3

(* C5: when the structured source never resolves (still pending after the *)
(* last poll, or unreachable) the capture does not fail hard: it falls    *)
(* back to secondary extraction.                                          *)
C5_FallbackNotFailure ==
  (pc = "done" /\ settled /\ IsNull(pollResult)) => outcome = "dom"

(* C6: when the location-resolution loop exhausts its attempts without an *)
(* id, the capture fails and the structured source is never fetched.      *)
C6_TimeoutNoFetch ==
  (pc = "done" /\ probes = waitMaxAttempts /\ submissionId = NoId) =>
     /\ outcome = "throw:No submission ID in URL"
     /\ fetches = 0
     /\ ~settled
     /\ rec = EmptyRec

C6_Witness ==
  /\ pc = "done" /\ probes = waitMaxAttempts /\ firstFound = 0
  /\ outcome = "throw:No submission ID in URL" /\ fetches = 0

(* C7: location first, then the settling delay, then the fetches: no      *)
(* fetch before the delay has completed, no delay before the id is known, *)
(* and at most 10 fetches per capture.                                    *)
C7_Ordered ==
  /\ (fetches > 0 \/ InPollLoop => settled)
  /\ (settled \/ pc = "settle" => submissionId # NoId)
  /\ fetches <= pollMaxAttempts
  /\ pollWaits <= pollMaxAttempts - 1

C7_Witness ==
  /\ fetches = pollMaxAttempts /\ settled /\ submissionId # NoId
  /\ pollWaits = pollMaxAttempts - 1

----------------------------------------------------------------------------
(* Properties of the background script *)

FailedPassEnded ==
  \/ event.type = "syncEnd" /\ event.outcome \in {"failure", "throw"}
  \/ event.type = "countEnd" /\ event.outcome = "error"

(* C8: a failed synchronization or recount pass leaves the counters as    *)
(* they were before it (no overwrite, no zeroing), and the status record  *)
(* a failed synchronization writes carries a message.                     *)
C8_FailedPassKeepsCounts ==
  FailedPassEnded =>
     /\ counter = event.pre
     /\ (event.type = "syncEnd" =>
           /\ storage.lastSyncStatus = "failed"
           /\ storage.lastSyncMessage # "")

(* Each tier's counter is the number of scanned files whose identifier    *)
(* maps to that tier in the catalog.                                      *)
Reconciled(files) ==
  LET n(tier) == Cardinality({ i \in DOMAIN files :
                                 /\ files[i] \in DOMAIN Catalog
                                 /\ Catalog[files[i]] = tier })
  IN  [easy |-> n("Easy"), medium |-> n("Medium"), hard |-> n("Hard")]

(* C9: after a successful sync of a fully configured user, the recount it *)
(* triggers leaves the counters equal to the reconciliation of the        *)
(* scanned files against the catalog.                                     *)
C9_CountersReconciled ==
  (event.type = "countEnd" /\ event.origin = "sync" /\ Configured(storage)) =>
     counter = Reconciled(remoteFiles)

SyncRunning == \E p \in PassIds : passes[p].kind = "sync"

(* C10: while a sync pass is running, the persisted inProgress flag is    *)
(* true.                                                                  *)
C10_InProgressWhileRunning == SyncRunning => storage.syncInProgress = TRUE

SyncEnded == event.type = "syncEnd"

(* C11: when startSync finishes, whatever syncService.startSync did       *)
(* (reported success, reported failure, threw), the persisted record has  *)
(* inProgress false, the outcome that agrees, a message and a date.       *)
C11_StatusOnEveryPath ==
  SyncEnded =>
     /\ storage.syncInProgress = FALSE
     /\ storage.lastSyncStatus =
           (IF event.outcome = "success" THEN "success" ELSE "failed")
     /\ storage.lastSyncMessage # ""
     /\ storage.lastSyncDate # "null"

C11_Witness ==
  /\ SyncEnded /\ event.outcome = "throw"
  /\ storage.lastSyncStatus = "failed" /\ storage.syncInProgress = FALSE
  /\ storage.lastSyncMessage = "error.message"

(* The step taken last sent a statsUpdate message. *)
BroadcastStep ==
  \/ event.type = "countEnd"
  \/ event.type = "increment" /\ event.outcome = "true"

(* C12: every exit from Running, successful or failed, is followed by a   *)
(* broadcast of the counters.                                             *)
C12_ExitThenBroadcast == SyncEnded ~> BroadcastStep

(* C13: a pass that ran while the catalog could not be fetched ends       *)
(* Failed: the status record shows failed with a message.                 *)
C13_CatalogFailureRecorded ==
  (event.type = "countEnd" /\ Configured(storage) /\ ~catalogUp) =>
     /\ storage.lastSyncStatus = "failed"
     /\ storage.lastSyncMessage # ""

----------------------------------------------------------------------------
(* Properties of the repository scanner *)

ScanDone == scanPc = "done"

(* C14: with the repository string missing, the failure reaches the       *)
(* caller of the scanner instead of ending as an empty scan result.       *)
C14_InvalidRepoPropagates ==
  (ScanDone /\ storage.repo = Missing) => scanResult.how = "throw"

TopLevelFailed == topAnswer.kind \in {"none", "error", "notok", "badjson", "notarray"}

(* C15: getAllLeetCodeProblems never throws, and when the configuration   *)
(* or the top-level listing fails it returns an empty list.               *)
C15_NeverThrows ==
  /\ scanResult.how # "throw"
  /\ (ScanDone /\ TopLevelFailed =>
        scanResult = [how |-> "return", problems |-> <<>>])

C15_Witness ==
  /\ ScanDone /\ topAnswer.kind = "error"
  /\ scanResult = [how |-> "return", problems |-> <<>>]

RECURSIVE Collected(_)
Collected(visits) ==
  IF visits = <<>> THEN <<>>
  ELSE LET v == visits[Len(visits)]
       IN  Collected(SubSeq(visits, 1, Len(visits) - 1))
           \o (IF v.answer.kind = "ok"
                 THEN folderProblems(v.folder, v.answer.entries) ELSE <<>>)

(* C16: whichever folders fail, every folder of the top-level listing is  *)
(* visited, in order, and the result is exactly the matching files of     *)
(* the folders that answered.                                             *)
C16_FailuresIsolated ==
  /\ (scanPc = "dirs" \/ (ScanDone /\ seen # <<>>) =>
        /\ [i \in DOMAIN seen |-> seen[i].folder] \o folders
             = DirNames(topAnswer.entries)
        /\ allProblems = Collected(seen))
  /\ (ScanDone /\ seen # <<>> =>
        /\ folders = <<>>
        /\ scanResult = [how |-> "return", problems |-> Collected(seen)])

C16_Witness ==
  /\ ScanDone /\ Len(seen) = 3
  /\ seen[1].answer.kind = "ok" /\ seen[2].answer.kind = "error"
  /\ seen[3].answer.kind = "ok"
  /\ \E i, j \in DOMAIN scanResult.problems :
       /\ scanResult.problems[i].language = seen[1].folder
       /\ scanResult.problems[j].language = seen[3].folder

(* Four digits, whitespace, a non-empty name, a dot, a non-empty          *)
(* extension (name and extension free of line terminators).               *)
NamedLikeASolution(n) ==
  /\ Len(n) >= 8
  /\ \A i \in 1..4 : n[i] \in Digits
  /\ \E k \in 5..Len(n), j \in 5..Len(n) :
       /\ \A i \in 5..k : IsSpace(n[i])
       /\ k + 2 <= j /\ j + 1 <= Len(n)
       /\ n[j] = "."
       /\ \A i \in (k + 1)..(j - 1) : IsAnyChar(n[i])
       /\ \A i \in (j + 1)..Len(n) : IsAnyChar(n[i])

Times(seq, Test(_)) == Cardinality({ i \in DOMAIN seq : Test(seq[i]) })

(* C17: for every visited folder and every name, the output holds as many *)
(* entries of that folder and name as the folder's listing holds          *)
(* file-typed entries of that name when the name matches, and none        *)
(* otherwise.                                                             *)
C17_OnlyMatchingFiles ==
  \A v \in DOMAIN seen : \A n \in FileNames :
     LET listed == IF seen[v].answer.kind = "ok"
                     THEN seen[v].answer.entries ELSE <<>>
         IsOut(p) == p.language = seen[v].folder /\ p.originalName = n
         IsIn(e) == e.type = "file" /\ e.name = n
     IN  Times(allProblems, IsOut) =
           (IF NamedLikeASolution(n) THEN Times(listed, IsIn) ELSE 0)

C17_Witness ==
  /\ ScanDone
  /\ \E v \in DOMAIN seen :
       /\ seen[v].answer.kind = "ok"
       /\ \E e \in DOMAIN seen[v].answer.entries :
            /\ seen[v].answer.entries[e].type # "file"
            /\ NamedLikeASolution(seen[v].answer.entries[e].name)
  /\ \E v \in DOMAIN seen :
       /\ seen[v].answer.kind = "ok"
       /\ \E e \in DOMAIN seen[v].answer.entries :
            /\ seen[v].answer.entries[e].type = "file"
            /\ ~NamedLikeASolution(seen[v].answer.entries[e].name)
  /\ \E v \in DOMAIN seen : Len(seen[v].answer.entries) = 2
  /\ Len(scanResult.problems) >= 4

RECURSIVE StripLeadingZeros(_)
StripLeadingZeros(ds) ==
  IF Len(ds) > 1 /\ Head(ds) = "0" THEN StripLeadingZeros(Tail(ds)) ELSE ds

(* C18 as stated: the identifier of an accepted file name is its 4-digit  *)
(* prefix without leading zeros, and deriving again from the identifier   *)
(* gives the identifier.                                                  *)
C18_Idempotent ==
  \A i \in DOMAIN allProblems :
     /\ allProblems[i].questionId =
          StripLeadingZeros(SubSeq(allProblems[i].originalName, 1, 4))
     /\ convertGithubToLeetCodeSlug(allProblems[i].questionId) =
          allProblems[i].questionId

(* C18 amended: the identifier of an accepted file name is its 4-digit    *)
(* prefix without leading zeros, and deriving again from the identifier   *)
(* gives the empty string.                                                *)
C18_StripsZerosOnce ==
  \A i \in DOMAIN allProblems :
     /\ allProblems[i].questionId =
          StripLeadingZeros(SubSeq(allProblems[i].originalName, 1, 4))
     /\ convertGithubToLeetCodeSlug(allProblems[i].questionId) = <<>>

C18_Witness ==
  /\ \E i \in DOMAIN allProblems : allProblems[i].questionId = <<"0">>
  /\ \E i \in DOMAIN allProblems : allProblems[i].questionId = <<"9", "9">>
  /\ \E i \in DOMAIN allProblems : allProblems[i].questionId = <<"1">>

----------------------------------------------------------------------------
(* Properties of the reconciliation *)

JustReconciled == event.type = "reconcile"

(* C19: a file counts in exactly the tier the catalog gives its           *)
(* identifier, and a file whose identifier the catalog does not hold      *)
(* counts nowhere and raises nothing.                                     *)
C19_CountsByCatalogTier ==
  JustReconciled =>
     /\ counter = Reconciled(remoteFiles)
     /\ event.outcome = "ok"
     /\ isCountingComplete /\ ~loading

C19_Witness ==
  /\ JustReconciled /\ remoteFiles = <<"1", "2", "99">>
  /\ counter = [easy |-> 1, medium |-> 1, hard |-> 0]

(* C20: files are counted, not distinct problems: an identifier of the    *)
(* catalog that appears in n files adds n to its tier.                    *)
C20_DuplicatesCounted ==
  JustReconciled =>
     \A q \in DOMAIN Catalog :
        LET IsQ(f) == f = q
        IN  counter[toLowerCase(Catalog[q])] >= Times(remoteFiles, IsQ)

C20_Witness ==
  /\ JustReconciled /\ remoteFiles = <<"1", "1">>
  /\ counter.easy = 2

----------------------------------------------------------------------------
(* Properties of the state manager *)

Sum(c) == c.easy + c.medium + c.hard

Matched(files) == Cardinality({ i \in DOMAIN files : files[i] \in DOMAIN Catalog })

(* C21: the three counters are never negative and their sum is at most    *)
(* the number of scanned files that have a catalog match.                 *)
C21_SumWithinMatches ==
  /\ \A t \in Tiers : counter[t] \in Nat
  /\ Sum(counter) <= Matched(remoteFiles)

InputState == State(ZeroCounter, FALSE, "null", TRUE)

(* C22: the counters after updateStats are those it gives from any other  *)
(* prior state on the same list, and a second call on the same list       *)
(* leaves them as they are.                                               *)
C22_FunctionOfInput ==
  JustReconciled =>
     /\ counter = updateStats(InputState, difficulties(remoteFiles)).counter
     /\ counter = updateStats(CurrentState, difficulties(remoteFiles)).counter

C22_Witness ==
  /\ JustReconciled
  /\ Sum(event.pre) > 0 /\ Sum(counter) > 0
  /\ event.pre # counter

ValidDifficulties == {d \in Difficulties : ~Falsy(d) /\ toLowerCase(d) \in Tiers}

(* C23: handling updateDifficultyStats with a valid tier in any letter    *)
(* case adds one to that tier, leaves the other two counters and the      *)
(* loading and isCountingComplete flags as they were, and answers         *)
(* success = true.                                                        *)
C23_ValidIncrement ==
  [][\A d \in ValidDifficulties :
       MsgUpdateDifficultyStatsWith(d) =>
         /\ counter' = [counter EXCEPT ![toLowerCase(d)] = @ + 1]
         /\ loading' = loading
         /\ isCountingComplete' = isCountingComplete
         /\ event'.outcome = "true"]_vars

C23_Witness ==
  /\ event.type = "increment" /\ event.outcome = "true"
  /\ counter = [event.pre EXCEPT !.hard = @ + 1]
  /\ isCountingComplete /\ ~loading

(* C24: incrementCounter returns false for every invalid difficulty, a    *)
(* missing or empty one included, and then changes no counter.            *)
C24_InvalidReturnsFalse ==
  (event.type = "increment" /\ event.outcome # "true") =>
     /\ event.outcome = "false"
     /\ counter = event.pre

(* C25: a pass of a configured user ends by the reconciliation, that is   *)
(* after the repository scan and the catalog fetch were both started and  *)
(* both completed.                                                        *)
C25_BothStartedThenJoined ==
  (event.type = "countEnd" /\ Configured(storage)) =>
     event.outcome = "reconciled"

(* Pass p is still running, a pass started after it, and every pass       *)
(* started after it has ended.                                            *)
Superseded(p) ==
  /\ passes[p].kind # "none" /\ ~passes[p].newest
  /\ \A q \in PassIds : ~passes[q].newest

(* C26: a pass that ends after a pass started later than it has ended     *)
(* leaves the status record and the counters of the later pass in place.  *)
C26_NewestPassWins ==
  [][\A p \in PassIds :
       (Superseded(p) /\ (SyncSettles(p) \/ CountGetResolves(p))) =>
          (storage' = storage /\ counter' = counter)]_vars

StatusRecord(st) ==
  <<st.lastSyncStatus, st.syncInProgress, st.lastSyncMessage, st.lastSyncDate>>

(* The step is one of a synchronization pass: its start, the end of       *)
(* startSync, or the end of the recount that startSync called.            *)
OrchestratorStep ==
  \/ event'.type \in {"syncStart", "syncEnd"}
  \/ event'.type = "countEnd" /\ event'.origin = "sync"

(* C27: the persisted status record and the counters change only in the   *)
(* steps of a synchronization pass, never in the handling of a capture    *)
(* increment, a credential save or a request of the popup.                *)
C27_OnlyOrchestratorWrites ==
  [][(StatusRecord(storage') # StatusRecord(storage) \/ counter' # counter)
       => OrchestratorStep]_vars

----------------------------------------------------------------------------
(* Properties of the message listener *)

(* The step taken last ended the handling of a message. *)
HandlerEnded ==
  \/ event.type \in {"syncEnd", "increment", "save", "config"}
  \/ event.type = "countEnd" /\ event.origin = "message"

(* The step taken last began the handling of a message and left it        *)
(* waiting.                                                               *)
HandlerWaits == event.type \in {"syncStart", "countStart"}

(* C29 as stated: every message of the five kinds is answered once, at    *)
(* the end of its handling and not before, and a syncSolvedProblems or    *)
(* requestInitialStats message is answered only when its pass has ended.  *)
C29_OneResponseAfterPass ==
  /\ HandlerEnded => Len(event.responses) = 1
  /\ HandlerWaits => event.responses = <<>>
  /\ (event.type \in {"syncEnd", "countEnd"} /\ event.responses # <<>>) =>
        ~event.pending

(* C29 amended: every message of the five kinds is answered once, at the  *)
(* end of its handling and not before; requestInitialStats is answered    *)
(* when its recount has ended; syncSolvedProblems is answered completed   *)
(* when startSync has written the status record, whatever the outcome,    *)
(* and the recount of a successful synchronization is then still running. *)
C29_OneResponseAfterStartSync ==
  /\ HandlerEnded => Len(event.responses) = 1
  /\ HandlerWaits => event.responses = <<>>
  /\ (event.type = "countEnd" /\ event.responses # <<>>) => ~event.pending
  /\ event.type = "syncEnd" =>
        /\ event.responses = <<Answer("status", "completed")>>
        /\ storage.lastSyncDate # "null"
        /\ event.pending = (event.outcome = "success")

C29_Witness ==
  /\ event.type = "syncEnd" /\ event.outcome = "success"
  /\ event.responses = <<Answer("status", "completed")>>
  /\ \E p \in PassIds : passes[p].kind = "count" /\ passes[p].origin = "sync"

----------------------------------------------------------------------------
(* Properties of the popup *)

(* The syncSolvedProblems messages of the popup sent and not yet through  *)
(* startSync.                                                             *)
InFlight ==
  outbox + Cardinality({ p \in PassIds : passes[p].kind = "sync" })

(* C30: while a synchronization asked for by the popup has not finished,  *)
(* the sync button is disabled, so the popup has at most one              *)
(* syncSolvedProblems message in flight.                                  *)
C30_ButtonDisabledWhileSyncing ==
  /\ InFlight > 0 => syncButtonDisabled
  /\ InFlight <= 1

----------------------------------------------------------------------------
(* C31: in fallback extraction the strategies are applied in a fixed      *)
(* priority order and, per field, the first value that is not empty wins: *)
(* every field of the record equals the value of the highest-priority     *)
(* strategy that recovered one, and the whole-document search fills only  *)
(* fields that are still empty.                                           *)
RECURSIVE FirstNonEmpty(_, _)
FirstNonEmpty(values, empty) ==
  IF values = <<>> THEN empty
  ELSE IF Head(values) # empty THEN Head(values)
  ELSE FirstNonEmpty(Tail(values), empty)

(* The value a Beats element list yields for a field with contexts ctxs. *)
RECURSIVE FirstBeat(_, _)
FirstBeat(beats, ctxs) ==
  IF beats = <<>> THEN Empty
  ELSE IF Head(beats).pct # "" /\ Head(beats).ctx \in ctxs
    THEN <<Head(beats).pct, "%">>
  ELSE FirstBeat(Tail(beats), ctxs)

StatsByPriority(d) ==
  [runtime |->
     FirstNonEmpty(<<Tok(d.rtMs, " ms"), Tok(d.bodyMs, " ms")>>, Empty),
   memory |->
     FirstNonEmpty(<<Tok(d.memMB, " MB"), Tok(d.bodyMB, " MB")>>, Empty),
   runtimePercentile |->
     FirstNonEmpty(<<Tok(d.rtBeats, "%"),
                     FirstBeat(d.beats, {"runtime", "both"})>>, Empty),
   memoryPercentile |->
     FirstNonEmpty(<<Tok(d.memBeats, "%"),
                     FirstBeat(d.beats, {"memory"})>>, Empty)]

(* The text a selector yields: that of the last element it matches. *)
SelectorText(elements) ==
  IF Len(elements) > 0 THEN elements[Len(elements)] ELSE ""

CodeByPriority(l, p) ==
  FirstNonEmpty(
    (IF ~l.null /\ Truthy(l.langName) THEN <<SelectorText(p.specific)>>
     ELSE <<>>)
    \o [i \in 1..MaxSelectors |-> SelectorText(p.fallbacks[i])], "")

C31_StatsFirstNonEmptyWins ==
  page.kind = "stats" => rec = StatsByPriority(page.dom)

C31_CodeFirstNonEmptyWins ==
  page.kind = "code" => code = CodeByPriority(language, page)

C31_FirstNonEmptyWins ==
  C31_StatsFirstNonEmptyWins /\ C31_CodeFirstNonEmptyWins

----------------------------------------------------------------------------
(* C32: after a capture has been processed the language tag of the record *)
(* is never null or empty: when no language can be determined (none       *)
(* found, or the name found cannot be mapped) the tag is "unknown".       *)
LanguageProcessed == page.kind \in {"language", "api"}

C32_LanguageTagNeverEmpty ==
  LanguageProcessed => ~language.null /\ Truthy(language.langName)

(* The part that holds: extractLanguageFromDOM always leaves a tag. *)
C32_DomLanguageTagNeverEmpty ==
  page.kind = "language" => ~language.null /\ Truthy(language.langName)

----------------------------------------------------------------------------
(* C33: every initCounter invocation whose awaited promises settle ends   *)
(* with loading = false and isCountingComplete = true and sends a         *)
(* broadcast, on every path (not configured, success, any error).         *)
CountEnded == event.type = "countEnd"

CountWaiting(p) == passes[p].kind = "count"

(* The invocations in flight keep the order they started in, so the one   *)
(* in place p ends by a step of a place up to p, and the oldest one by a  *)
(* step of place 1.                                                       *)
C33_EndsCompleteAndBroadcasts ==
  /\ [](CountEnded => /\ ~loading /\ isCountingComplete
                      /\ lastBroadcast = getStats(CurrentState))
  /\ CountWaiting(1) ~> (CountEnded /\ event.slot = 1)
  /\ \A p \in PassIds :
       CountWaiting(p) ~> (~event.pending /\ event.slot \in 1..p)

(* A configured invocation has ended in the catch block while another     *)
(* one was still waiting.                                                 *)
C33_Witness ==
  /\ CountEnded /\ event.slot = 1
  /\ Configured(storage)
  /\ CountWaiting(1)
  /\ ~loading /\ isCountingComplete

----------------------------------------------------------------------------
(* C34: in every state observable between two event-loop tasks loading is *)
(* the negation of isCountingComplete, after any sequence of              *)
(* incrementCounter, updateStats, reset and initCounter.                  *)
C34_LoadingIffNotComplete == loading = ~isCountingComplete

(* An increment counted after an initCounter has ended. *)
C34_Witness ==
  /\ event.type = "increment" /\ event.outcome = "true"
  /\ ~loading /\ isCountingComplete

----------------------------------------------------------------------------
(* C35: an initCounter pass that finds token, username and repository     *)
(* configured zeroes the three counters before it issues any fetch: no    *)
(* counter value from before the pass, out-of-band increments included,   *)
(* survives the pass, whether it succeeds or fails.                       *)
ConfiguredPassEnded == CountEnded /\ event.outcome # "unconfigured"

C35_ConfiguredPassZeroes ==
  ConfiguredPassEnded => counter = ZeroCounter /\ lastUpdate = "null"

C35_Witness ==
  /\ ConfiguredPassEnded
  /\ event.pre # ZeroCounter
  /\ counter = ZeroCounter

----------------------------------------------------------------------------
(* C36: an initCounter that finds token, username or repository missing   *)
(* performs no fetch and leaves the three counters and lastUpdate as they *)
(* are (no reset to zero); it only sets loading = false and               *)
(* isCountingComplete = true and broadcasts, so the counts of a           *)
(* repository linked before remain after an unlink.                       *)
UnconfiguredEnd(p) == CountGetResolves(p) /\ ~Configured(storage)

C36_UnconfiguredKeepsCounts ==
  [][\A p \in PassIds :
       UnconfiguredEnd(p) =>
         /\ ~initCounterBody(CurrentState, storage).fetching
         /\ counter' = counter /\ lastUpdate' = lastUpdate
         /\ ~loading' /\ isCountingComplete'
         /\ lastBroadcast' = getStats(CurrentState')
         /\ storage' = storage]_vars

(* The repository was unlinked with counts on the board, and the pass the *)
(* listener started has ended.                                            *)
C36_Witness ==
  /\ CountEnded /\ event.outcome = "unconfigured"
  /\ event.origin = "storage"
  /\ storage.repo = Missing /\ storage.token # Missing
  /\ event.pre # ZeroCounter /\ counter = event.pre
  /\ lastUpdate = "date"

----------------------------------------------------------------------------
(* C37: startSync never rejects: an exception from the sync service       *)
(* becomes a {success: false} result and a failed status record, so the   *)
(* syncSolvedProblems handler always answers status "completed", also     *)
(* when the synchronization failed, and never status "failed".            *)
C37_StartSyncNeverRejects ==
  SyncEnded =>
    /\ ~startSyncReturn(event.outcome).rejected
    /\ event.outcome = "throw" =>
          /\ ~startSyncReturn(event.outcome).success
          /\ storage.lastSyncStatus = "failed"
          /\ ~storage.syncInProgress
    /\ event.responses # <<>>
    /\ \A i \in DOMAIN event.responses :
         event.responses[i] = Answer("status", "completed")

C37_Witness ==
  /\ SyncEnded /\ event.outcome = "throw"
  /\ storage.lastSyncStatus = "failed"
  /\ event.responses = <<Answer("status", "completed")>>

----------------------------------------------------------------------------
(* C38: in pollForSubmissionData an answer that is neither PENDING nor    *)
(* finished counts as not ready: the loop waits and polls again, and when *)
(* all 10 attempts end that way it returns null after exactly 10 fetches  *)
(* and 9 waits, with no wait after the last attempt; a PENDING answer on  *)
(* attempt 10 returns null without a further wait as well.                *)
NotReady(data) == ~IsNull(data) /\ ~Finished(data)

C38_NotReadyPolledAgain ==
  /\ (fetches > 0 /\ fetches < pollMaxAttempts /\ NotReady(lastData)) =>
        InPollLoop
  /\ (fetches > 0 /\ NotReady(lastData) /\ pc = "done") =>
        fetches = pollMaxAttempts
  /\ (fetches = pollMaxAttempts /\ NotReady(lastData)) =>
        /\ pc = "done"
        /\ IsNull(pollResult)
        /\ pollWaits = pollMaxAttempts - 1
        /\ nPending + nOther = pollMaxAttempts

(* Ten answers in a row that were neither PENDING nor finished. *)
C38_Witness ==
  /\ nOther = pollMaxAttempts /\ fetches = pollMaxAttempts
  /\ pc = "done" /\ IsNull(pollResult)
  /\ pollWaits = pollMaxAttempts - 1

----------------------------------------------------------------------------
(* C39: with the GraphQL-backed fetchSubmissionData every non-null answer *)
(* is marked finished with state SUCCESS, so pollForSubmissionData        *)
(* returns on its first attempt in every execution: one fetch per         *)
(* capture, and the pending and retry branches are never taken.           *)
C39_GraphqlPollsOnce ==
  build = "graphql" =>
    /\ fetches <= 1
    /\ pollWaits = 0 /\ nPending = 0 /\ nOther = 0
    /\ pc # "pollWait"
    /\ fetches = 1 => pc = "done"
    /\ (pc = "done" /\ settled) => fetches = 1
    /\ (fetches > 0 /\ ~IsNull(lastData)) =>
          /\ lastData.finished /\ lastData.state = "SUCCESS"
          /\ pollResult = lastData

(* A submission that was not accepted, captured with one fetch. *)
C39_Witness ==
  /\ build = "graphql" /\ pc = "done" /\ fetches = 1
  /\ ~IsNull(pollResult) /\ pollResult.status_msg = "Not Accepted"
  /\ outcome = "api"

----------------------------------------------------------------------------
(* C40: the storage-change listener starts a recount only for a change of *)
(* leetcode_tracker_repo or leetcode_tracker_mode in the local area; the  *)
(* writes of startSync, initCounter, saveUserInfos and the constructor    *)
(* touch neither key, so one outside trigger causes finitely many passes  *)
(* and the system comes to rest again: there is no self-triggering loop.  *)

(* The awaits outstanding: a startSync in flight may still call           *)
(* initCounter, an initCounter in flight ends at its next step.           *)
Work ==
  LET w(p) == CASE passes[p].kind = "sync"  -> 2
                [] passes[p].kind = "count" -> 1
                [] OTHER                    -> 0
      RECURSIVE sum(_)
      sum(n) == IF n = 0 THEN 0 ELSE w(n) + sum(n - 1)
  IN  sum(MaxPasses)

Quiescent == \A p \in PassIds : passes[p].kind = "none"

(* Steps taken on a message, or on a change of the storage made outside   *)
(* the background script.                                                 *)
OutsideTrigger ==
  event.type \in {"syncStart", "countStart", "repoChange", "areaChange",
                  "save"}

C40_NoSelfTriggering ==
  /\ [](event.fired => event.type = "repoChange")
  /\ []((event.type = "repoChange") => event.fired)
  /\ [][(Changes(storage, storage') \cap {"repo", "mode"} # {}) =>
          event'.type = "repoChange"]_vars
  /\ [][Work' > Work =>
          event'.type \in {"syncStart", "countStart", "repoChange"}]_vars
  /\ [][event'.type \in {"syncEnd", "countEnd"} => Work' < Work]_vars
  /\ []<>(Quiescent \/ OutsideTrigger)

(* The status record of a synchronization has been written, the recount   *)
(* it started has ended, and the listener has started nothing.            *)
C40_Witness ==
  /\ Quiescent
  /\ event.type = "countEnd" /\ event.origin = "sync"
  /\ storage.lastSyncStatus = "success"
  /\ ~event.fired

====
